---- MODULE Spec2Model ----
(***************************************************************************)
(* KeyBuddy: the users table and AuthManager (src/src/core/auth.py), the   *)
(* PermissionManager (src/src/core/permissions.py), DatabaseManager        *)
(* (src/src/core/database.py) and the BackupManager                        *)
(* (src/src/core/backup_manager.py) as state machines.                     *)
(*                                                                         *)
(* One module holds several specifications, one per subsystem; each has    *)
(* its own Init and Next and leaves the other subsystems' variables alone. *)
(***************************************************************************)
EXTENDS Integers, Sequences, FiniteSets, TLC

(***************************************************************************)
(* Bounds of the model.                                                    *)
(***************************************************************************)
\* rows the users table may ever hold (AUTOINCREMENT ids 1..MaxUsers) in
\* SpecAuth, and in SpecRegister
MaxUsers == 2
MaxRows == 3
\* admin edits (save_user) and deletions per run
MaxEdits == 1
\* a TOTP code is drawn for a time step at most MaxSkew steps from now
MaxSkew == 2
\* rows the permissions table may ever hold
MaxPermRows == 3
\* a successful statement answers a lastrowid in 1..MaxRowId or a rowcount in
\* 0..MaxRowCount
MaxRowId == 2
MaxRowCount == 1
\* password-reset tokens drawn per run
MaxTokens == 3
\* orders saved per run
MaxOrders == 3
\* the days from which the systems list draws the time of its load
MaxBillingDay == 366
\* backup artifacts ever written, and writes to the live database, per run
MaxArtifacts == 3
MaxWrites == 2
\* the clock runs to MaxNow half days
MaxNow == 4
\* the days from which the cadence check draws its times: 2023-12-30 to
\* 2024-02-02
MaxDay == 34
\* the clock counts half days: SlotsPerDay ticks of it make one day
SlotsPerDay == 2

(***************************************************************************)
(* Values.                                                                 *)
(***************************************************************************)
\* SQL NULL / Python None for the integer-valued columns and inputs
NULL == 0
\* AuthManager.current_user = None
NoUser == [id |-> 0, username |-> "", role |-> "", is_admin |-> FALSE]

AdminName == "admin"
AdminEmail == "keybuddyreg@gmail.com"
AdminPassword == "admin"

\* strings a registration or an edit may give as username / as email; "bob@x.se"
\* is in both: the register form only asks that the email contains "@"
UserNames == {"alice", "bob@x.se"}
Emails == {"alice@x.se", "bob@x.se"}
Passwords == {"Secret123!", AdminPassword}
Identifiers == UserNames \cup Emails \cup {AdminName}

\* the messages of auth.py
MsgInvalid == "Ogiltig anvandare eller losenord"
MsgNotVerified == "E-post inte verifierad. Kontrollera din inkorg."
MsgInactive == "Anvandare inaktiverad av systemadmin"
MsgBad2FA == "Ogiltig 2FA-kod"
Msg2FA == "2FA kravs"
MsgLoginOk == "Inloggning lyckades"
MsgLoginExc == "Inloggning misslyckades"
MsgExists == "Anvandare eller e-post finns redan"
MsgRegistered == "Anvandare registrerad. Kontrollera din e-post for verifiering."
MsgBadToken == "Ogiltig verifieringstoken"
MsgVerified == "E-post verifierad framgangsrikt"

VARIABLES
    users,          \* the users table: id -> row
    nextId,         \* the next AUTOINCREMENT id
    current_user,   \* AuthManager.current_user
    authRes,        \* the last AuthManager call: its arguments and what it returned
    edits,          \* admin edits and deletions made so far
    permissions,    \* the permissions table: its rows in insertion order
    permRes,        \* the last PermissionManager call and what it returned
    euPc,           \* execute_update: "idle", "running", "returned" or "raised"
    euQuery,        \* the statement of the call
    euAttempt,      \* the loop variable `attempt`
    euErrors,       \* the errors of the attempts made so far, in order
    euSlept,        \* the time slept between attempts, in units of 50 ms
    euResult,       \* what the call returned or raised
    now,            \* the wall clock, in half days since the epoch of the model
    cwd,            \* the working directory of the process
    live,           \* the live files: database, salt, settings, logo
    dbWrites,       \* versions of the live database written so far
    files,          \* the backup artifacts on disk
    temp_restore,   \* the backup folders lying in the directory temp_restore
    backup_config,  \* BackupManager.backup_config (data/backup_config.json)
    backup_timer,   \* BackupManager.backup_timer
    bm,             \* AppManager.backup_manager: its life cycle and delay flag
    app_user,       \* AppManager.current_user, and whether one was ever set
    bakRes,         \* the last BackupManager call: what it did and returned
    nextToken,      \* the next draw of secrets.token_urlsafe, for reset tokens
    key_system,     \* one row of key_systems: sequence number and billing columns
    orders,         \* the orders of that key system, in insertion order
    saver,          \* save_key_order in each running application: its position
    systems_table,  \* the row of the key system as the systems table shows it
    version,        \* VersionManager: version.json before and after a publication
    codec,          \* DatabaseManager: the salt file, encryption_key, ciphertexts kept
    schema,         \* the database file: optional columns and tables, their content
    store,          \* customers, key systems, orders and the documents kept for them
    license         \* the licence file, the machine, the clock and the last calls

authVars == <<users, nextId, current_user, authRes, edits>>
permVars == <<permissions, permRes>>
updVars == <<euPc, euQuery, euAttempt, euErrors, euSlept, euResult>>

bakVars == <<now, cwd, live, dbWrites, files, temp_restore, backup_config,
             backup_timer, bm, app_user, bakRes>>

\* the random source of the password-reset tokens
tokVars == <<nextToken>>

\* the key system, its orders and the windows that work on them
keyVars == <<key_system, orders, saver, systems_table>>

\* the version file, the schema, the codec, the tables around a key system
\* and the licence
sysVars == <<version, codec, schema, store, license>>

\* the variables added for the later parts of the model
extVars == <<tokVars, keyVars, sysVars>>

\* the variables that the AuthManager and the users window leave alone
nonAuthVars == <<permVars, updVars, bakVars, extVars>>

\* the variables that request_password_reset and reset_password leave alone
nonTokVars == <<permVars, updVars, bakVars, keyVars, sysVars>>

(***************************************************************************)
(* Password hashes.  A hash is [alg, pw]: bcrypt is salted, so two hashes  *)
(* of one password differ as strings, but checkpw depends only on the      *)
(* password hashed; a legacy hash is the 64-hex SHA-256 digest.            *)
(***************************************************************************)
hash_password(password) == [alg |-> "bcrypt", pw |-> password]

sha256_hexdigest(password) == [alg |-> "sha256", pw |-> password]

\* bcrypt.checkpw raises on a hash that is not bcrypt; login treats that as False
verify_password(password, hashed) ==
    hashed.alg = "bcrypt" /\ hashed.pw = password

\* re.fullmatch(r"[0-9a-fA-F]{64}", stored)
IsLegacyHash(stored) == stored.alg = "sha256"

(***************************************************************************)
(* TOTP.  A code is [secret, skew]: the code of `secret` for the time step *)
(* `skew` steps away from the step of the call.  NoCode is None / "".      *)
(***************************************************************************)
NoCode == [secret |-> NULL, skew |-> 0]
valid_window == 1

Abs(n) == IF n < 0 THEN -n ELSE n

\* pyotp.TOTP(secret).verify(token, valid_window=1)
verify_totp(secret, token) ==
    token.secret = secret /\ Abs(token.skew) <= valid_window

(***************************************************************************)
(* The users table.                                                        *)
(***************************************************************************)
\* a schema whose two_factor_enabled column defaults to TRUE
NewRow_2FAOn(username, email, password_hash) ==
    [username |-> username, email |-> email, password_hash |-> password_hash,
     totp_secret |-> NULL, is_verified |-> FALSE, verification_token |-> NULL,
     reset_token |-> NULL, last_login |-> FALSE, role |-> "User",
     is_admin |-> FALSE, is_active |-> TRUE, two_factor_enabled |-> TRUE]

\* the column defaults of CREATE TABLE users
NewRow(username, email, password_hash) ==
    [username |-> username, email |-> email, password_hash |-> password_hash,
     totp_secret |-> NULL, is_verified |-> FALSE, verification_token |-> NULL,
     reset_token |-> NULL, last_login |-> FALSE, role |-> "User",
     is_admin |-> FALSE, is_active |-> TRUE, two_factor_enabled |-> FALSE]

\* UNIQUE(username), UNIQUE(email): may row `id` hold this username and email?
UniqueOk(tbl, id, username, email) ==
    \A j \in DOMAIN tbl \ {id} :
        tbl[j].username # username /\ tbl[j].email # email

Insert(tbl, id, row) == [j \in DOMAIN tbl \cup {id} |-> IF j = id THEN row ELSE tbl[j]]

Delete(tbl, id) == [j \in DOMAIN tbl \ {id} |-> tbl[j]]

AdminIds(tbl) == {j \in DOMAIN tbl : tbl[j].username = AdminName}

\* _create_default_admin: update the admin row, or insert it; an exception (a
\* UNIQUE violation on email) is printed and the table is left as it was
create_default_admin(tbl, id) ==
    LET hashed == hash_password(AdminPassword) IN
    IF AdminIds(tbl) # {}
    THEN LET a == CHOOSE j \in AdminIds(tbl) : TRUE IN
         IF UniqueOk(tbl, a, AdminName, AdminEmail)
         THEN [tbl EXCEPT ![a].email = AdminEmail, ![a].password_hash = hashed,
                          ![a].is_verified = TRUE, ![a].role = "admin",
                          ![a].is_admin = TRUE, ![a].is_active = TRUE,
                          ![a].two_factor_enabled = FALSE]
         ELSE tbl
    ELSE IF UniqueOk(tbl, id, AdminName, AdminEmail)
         THEN Insert(tbl, id,
                  [NewRow(AdminName, AdminEmail, hashed) EXCEPT
                      !.is_verified = TRUE, !.role = "admin", !.is_admin = TRUE,
                      !.is_active = TRUE, !.two_factor_enabled = FALSE])
         ELSE tbl

\* the table of a fresh database, after DatabaseManager.__init__
FreshUsers == create_default_admin(<<>>, 1)

(***************************************************************************)
(* AuthManager.                                                            *)
(***************************************************************************)
\* what a call returned; kind is the payload: "none" ({}), "2fa" or "profile"
NoRes ==
    [op |-> "init", u |-> "", e |-> "", p |-> "", t |-> NoCode, tok |-> NULL,
     ok |-> FALSE, msg |-> "", kind |-> "none", uid |-> NULL,
     totp_secret |-> NULL, role |-> "", is_admin |-> FALSE]

\* the keys of the payload login returns, by kind of payload
PayloadKeys(kind) ==
    CASE kind = "2fa" -> {"user_id", "requires_2fa", "totp_secret"}
      [] kind = "profile" -> {"user_id", "username", "email", "company_name",
                              "org_number", "role", "is_admin"}
      [] OTHER -> {}

\* SELECT * FROM users WHERE username = ? OR email = ?  with (u, u)
Matches(tbl, u) == {j \in DOMAIN tbl : tbl[j].username = u \/ tbl[j].email = u}

\* user[0]: SQLite answers the OR of two indexed columns term by term (MULTI-INDEX
\* OR), the username term first, so a row matched by username precedes a row
\* matched by email
FirstMatch(tbl, u) ==
    IF \E j \in DOMAIN tbl : tbl[j].username = u
    THEN CHOOSE j \in DOMAIN tbl : tbl[j].username = u
    ELSE CHOOSE j \in DOMAIN tbl : tbl[j].email = u

\* the password step of login: bcrypt, else the legacy SHA-256 digest
PasswordOk(row, p) ==
    \/ verify_password(p, row.password_hash)
    \/ /\ IsLegacyHash(row.password_hash)
       /\ sha256_hexdigest(p) = row.password_hash

\* "Check if email is verified (skip for admin)"
VerifiedOk(row) == row.is_verified \/ row.username = AdminName

\* a login that forgets the inactivation check
ActiveOk_Skipped(row) == TRUE

\* "Disallow login for inactivated users"
ActiveOk(row) == row.is_active

\* "Check if 2FA is enabled for this user"
Needs2FA(row) == row.two_factor_enabled /\ row.username # AdminName

\* the outcome of login(u, p, t) on table tbl: the steps of the method in order
LoginOutcome(tbl, u, p, t) ==
    IF Matches(tbl, u) = {} THEN "invalid"
    ELSE LET row == tbl[FirstMatch(tbl, u)] IN
         IF ~PasswordOk(row, p) THEN "invalid"
         ELSE IF ~VerifiedOk(row) THEN "not_verified"
         ELSE IF ~ActiveOk(row) THEN "inactive"
         ELSE IF Needs2FA(row) /\ t = NoCode THEN "requires_2fa"
         ELSE IF Needs2FA(row) /\ row.totp_secret = NULL THEN "exception"
         ELSE IF Needs2FA(row) /\ ~verify_totp(row.totp_secret, t) THEN "bad_2fa"
         ELSE "session"

LoginMsg(outcome) ==
    CASE outcome = "invalid" -> MsgInvalid
      [] outcome = "not_verified" -> MsgNotVerified
      [] outcome = "inactive" -> MsgInactive
      [] outcome = "requires_2fa" -> Msg2FA
      [] outcome = "bad_2fa" -> MsgBad2FA
      [] outcome = "exception" -> MsgLoginExc
      [] outcome = "session" -> MsgLoginOk

\* a login that checks the legacy digest and leaves it in the row
LoginTable_NoMigration(tbl, u, p, outcome) ==
    IF Matches(tbl, u) = {} THEN tbl
    ELSE IF outcome = "session"
         THEN [tbl EXCEPT ![FirstMatch(tbl, u)].last_login = TRUE]
         ELSE tbl

\* the table after login: a legacy hash that verified is migrated to bcrypt
\* whatever the later steps answer; last_login is written on success only
LoginTable(tbl, u, p, outcome) ==
    IF Matches(tbl, u) = {} THEN tbl
    ELSE LET id == FirstMatch(tbl, u)
             row == tbl[id]
             migrated == IF /\ ~verify_password(p, row.password_hash)
                            /\ PasswordOk(row, p)
                         THEN [tbl EXCEPT ![id].password_hash = hash_password(p)]
                         ELSE tbl
         IN IF outcome = "session"
            THEN [migrated EXCEPT ![id].last_login = TRUE]
            ELSE migrated

login(u, p, t) ==
    LET outcome == LoginOutcome(users, u, p, t)
        id == IF Matches(users, u) = {} THEN NULL ELSE FirstMatch(users, u)
    IN /\ users' = LoginTable(users, u, p, outcome)
       /\ current_user' =
            IF outcome = "session"
            THEN [id |-> id, username |-> users[id].username,
                  role |-> users[id].role, is_admin |-> users[id].is_admin]
            ELSE current_user
       /\ authRes' =
            [NoRes EXCEPT !.op = "login", !.u = u, !.p = p, !.t = t,
                !.ok = (outcome \in {"session", "requires_2fa"}),
                !.msg = LoginMsg(outcome),
                !.kind = CASE outcome = "session" -> "profile"
                           [] outcome = "requires_2fa" -> "2fa"
                           [] OTHER -> "none",
                !.uid = IF outcome \in {"session", "requires_2fa"} THEN id ELSE NULL,
                !.totp_secret = IF outcome = "requires_2fa"
                                THEN users[id].totp_secret ELSE NULL,
                !.role = IF outcome = "session" THEN users[id].role ELSE "",
                !.is_admin = IF outcome = "session" THEN users[id].is_admin ELSE FALSE]
       /\ UNCHANGED <<nextId, edits>>

logout ==
    /\ current_user' = NoUser
    /\ authRes' = [NoRes EXCEPT !.op = "logout", !.ok = TRUE]
    /\ UNCHANGED <<users, nextId, edits>>

\* a registration that looks for the username only, on a table without the
\* UNIQUE constraints
register_user_NameOnly(username, email, password) ==
    LET exists == \E j \in DOMAIN users : users[j].username = username
    IN /\ IF exists
          THEN /\ authRes' = [NoRes EXCEPT !.op = "register", !.u = username,
                                  !.e = email, !.p = password, !.msg = MsgExists]
               /\ UNCHANGED <<users, nextId>>
          ELSE /\ users' = Insert(users, nextId,
                     [NewRow(username, email, hash_password(password)) EXCEPT
                         !.totp_secret = nextId, !.verification_token = nextId])
               /\ nextId' = nextId + 1
               /\ authRes' = [NoRes EXCEPT !.op = "register", !.u = username,
                                  !.e = email, !.p = password, !.ok = TRUE,
                                  !.msg = MsgRegistered, !.uid = nextId,
                                  !.tok = nextId]
       /\ UNCHANGED <<current_user, edits>>

\* register_user: the new row's TOTP secret and verification token are fresh
\* random draws; the row's id stands for each
register_user(username, email, password) ==
    LET exists == \E j \in DOMAIN users :
                      users[j].username = username \/ users[j].email = email
    IN /\ IF exists
          THEN /\ authRes' = [NoRes EXCEPT !.op = "register", !.u = username,
                                  !.e = email, !.p = password, !.msg = MsgExists]
               /\ UNCHANGED <<users, nextId>>
          ELSE /\ users' = Insert(users, nextId,
                     [NewRow(username, email, hash_password(password)) EXCEPT
                         !.totp_secret = nextId, !.verification_token = nextId])
               /\ nextId' = nextId + 1
               /\ authRes' = [NoRes EXCEPT !.op = "register", !.u = username,
                                  !.e = email, !.p = password, !.ok = TRUE,
                                  !.msg = MsgRegistered, !.uid = nextId,
                                  !.tok = nextId]
       /\ UNCHANGED <<current_user, edits>>

\* verify_email: WHERE verification_token = ? matches no row for a NULL token
verify_email(token) ==
    LET hit == {j \in DOMAIN users :
                   token # NULL /\ users[j].verification_token = token} IN
    /\ IF hit = {}
       THEN /\ authRes' = [NoRes EXCEPT !.op = "verify", !.tok = token,
                               !.msg = MsgBadToken]
            /\ UNCHANGED users
       ELSE /\ users' = [j \in DOMAIN users |->
                           IF j \in hit
                           THEN [users[j] EXCEPT !.is_verified = TRUE,
                                                 !.verification_token = NULL]
                           ELSE users[j]]
            /\ authRes' = [NoRes EXCEPT !.op = "verify", !.tok = token,
                               !.ok = TRUE, !.msg = MsgVerified]
    /\ UNCHANGED <<nextId, current_user, edits>>

\* request_password_reset: the token is a fresh random draw, nextToken stands
\* for it; it overwrites the reset_token of the row with this email
request_password_reset(email) ==
    LET hit == {j \in DOMAIN users : users[j].email = email} IN
    /\ IF hit = {}
       THEN /\ authRes' = [NoRes EXCEPT !.op = "request_password_reset", !.e = email,
                               !.msg = "E-post hittades inte"]
            /\ UNCHANGED <<users, nextToken>>
       ELSE /\ users' = [j \in DOMAIN users |->
                           IF j \in hit
                           THEN [users[j] EXCEPT !.reset_token = nextToken]
                           ELSE users[j]]
            /\ nextToken' = nextToken + 1
            /\ authRes' = [NoRes EXCEPT !.op = "request_password_reset", !.e = email,
                               !.ok = TRUE, !.tok = nextToken,
                               !.msg = "Aterstallningslank skickad till din e-post"]
    /\ UNCHANGED <<nextId, current_user, edits>>

\* a reset that writes the password and leaves the token in the row
reset_password_KeepToken(token, new_password) ==
    LET hit == {j \in DOMAIN users : token # NULL /\ users[j].reset_token = token} IN
    /\ IF hit = {}
       THEN /\ authRes' = [NoRes EXCEPT !.op = "reset_password", !.tok = token,
                               !.p = new_password,
                               !.msg = "Ogiltig aterstallningstoken"]
            /\ UNCHANGED users
       ELSE /\ users' = [j \in DOMAIN users |->
                           IF j \in hit
                           THEN [users[j] EXCEPT
                                    !.password_hash = hash_password(new_password)]
                           ELSE users[j]]
            /\ authRes' = [NoRes EXCEPT !.op = "reset_password", !.tok = token,
                               !.p = new_password, !.ok = TRUE,
                               !.msg = "Losenord aterstallt framgangsrikt"]
    /\ UNCHANGED <<nextId, current_user, edits, nextToken>>

\* reset_password: WHERE reset_token = ? matches no row for a NULL token
reset_password(token, new_password) ==
    LET hit == {j \in DOMAIN users : token # NULL /\ users[j].reset_token = token} IN
    /\ IF hit = {}
       THEN /\ authRes' = [NoRes EXCEPT !.op = "reset_password", !.tok = token,
                               !.p = new_password,
                               !.msg = "Ogiltig aterstallningstoken"]
            /\ UNCHANGED users
       ELSE /\ users' = [j \in DOMAIN users |->
                           IF j \in hit
                           THEN [users[j] EXCEPT
                                    !.password_hash = hash_password(new_password),
                                    !.reset_token = NULL]
                           ELSE users[j]]
            /\ authRes' = [NoRes EXCEPT !.op = "reset_password", !.tok = token,
                               !.p = new_password, !.ok = TRUE,
                               !.msg = "Losenord aterstallt framgangsrikt"]
    /\ UNCHANGED <<nextId, current_user, edits, nextToken>>

(***************************************************************************)
(* The users window (src/src/ui/users_window.py) and the start of the      *)
(* application.                                                            *)
(***************************************************************************)
\* the role combo of UserDialog ("Forvaltare" and "Lassmed" stand for the
\* Swedish spellings)
RoleCombo == {"User", "Nyckelansvarig", "Forvaltare", "Lassmed", "Admin"}

\* MainWindow.show_users: the users window opens for an administrator only
CanManageUsers ==
    /\ current_user # NoUser
    /\ (current_user.role = "admin" \/ current_user.is_admin)

\* save_user(is_edit=True): one UPDATE of the row; a UNIQUE violation raises,
\* is shown in a message box and leaves the table as it was.  d.password = ""
\* is the dialog's empty password field.
save_user_edit(id, d) ==
    /\ CanManageUsers
    /\ id \in DOMAIN users
    /\ edits' = edits + 1
    /\ users' =
         IF UniqueOk(users, id, d.username, d.email)
         THEN [users EXCEPT
                  ![id].username = d.username, ![id].email = d.email,
                  ![id].role = d.role, ![id].is_active = d.is_active,
                  ![id].two_factor_enabled = d.two_factor_enabled,
                  ![id].password_hash =
                      IF d.password # "" THEN hash_password(d.password) ELSE @]
         ELSE users
    /\ authRes' = [NoRes EXCEPT !.op = "edit", !.uid = id]
    /\ UNCHANGED <<nextId, current_user>>

\* save_user(is_edit=False): the administrator creates a user, not yet verified
save_user_new(d) ==
    /\ CanManageUsers
    /\ d.password # ""
    /\ edits' = edits + 1
    /\ IF UniqueOk(users, nextId, d.username, d.email)
       THEN /\ users' = Insert(users, nextId,
                  [NewRow(d.username, d.email, hash_password(d.password)) EXCEPT
                      !.role = d.role, !.is_active = d.is_active,
                      !.two_factor_enabled = d.two_factor_enabled,
                      !.totp_secret = nextId, !.verification_token = nextId])
            /\ nextId' = nextId + 1
       ELSE UNCHANGED <<users, nextId>>
    /\ authRes' = [NoRes EXCEPT !.op = "create"]
    /\ UNCHANGED current_user

\* delete_user: DELETE FROM users WHERE id = ?
delete_user(id) ==
    /\ CanManageUsers
    /\ id \in DOMAIN users
    /\ edits' = edits + 1
    /\ users' = Delete(users, id)
    /\ authRes' = [NoRes EXCEPT !.op = "delete", !.uid = id]
    /\ UNCHANGED <<nextId, current_user>>

\* the application is started again on the existing database:
\* DatabaseManager.__init__ -> _create_database -> _create_default_admin, and a
\* new AuthManager with current_user = None
startup ==
    /\ users' = create_default_admin(users, nextId)
    /\ nextId' = IF DOMAIN users' # DOMAIN users THEN nextId + 1 ELSE nextId
    /\ current_user' = NoUser
    /\ authRes' = [NoRes EXCEPT !.op = "startup"]
    /\ UNCHANGED edits

(***************************************************************************)
(* PermissionManager (src/src/core/permissions.py).                        *)
(***************************************************************************)
\* the values of the enum UserRole
UserRole == {"admin", "manager", "user", "viewer"}

\* the values of the enum Permission
Permission ==
    {"create_customer", "edit_customer", "delete_customer", "view_customer",
     "create_key_system", "edit_key_system", "delete_key_system", "view_key_system",
     "create_order", "edit_order", "delete_order", "view_order", "export_order",
     "print_order", "create_user", "edit_user", "delete_user", "view_user",
     "manage_permissions", "manage_settings", "backup_database", "restore_database"}

\* _initialize_role_permissions
role_permissions ==
    [r \in UserRole |->
        CASE r = "admin" -> Permission
          [] r = "manager" ->
                {"create_customer", "edit_customer", "view_customer",
                 "create_key_system", "edit_key_system", "view_key_system",
                 "create_order", "edit_order", "view_order",
                 "export_order", "print_order", "view_user", "backup_database"}
          [] r = "user" ->
                {"view_customer", "view_key_system", "create_order", "view_order",
                 "export_order", "print_order"}
          [] r = "viewer" -> {"view_customer", "view_key_system", "view_order"}]

\* get_user_role answers None: no such row, or UserRole(role_str) raised
NoRole == "None"

\* get_user_role: UserRole(role_str) raises ValueError on a string that is not
\* a value of the enum, and the except clause answers None; an empty or NULL
\* role reads as UserRole.USER
get_user_role(tbl, user_id) ==
    IF user_id \notin DOMAIN tbl THEN NoRole
    ELSE IF tbl[user_id].role = "" THEN "user"
    ELSE IF tbl[user_id].role \in UserRole THEN tbl[user_id].role
    ELSE NoRole

\* SELECT COUNT(*) FROM permissions WHERE user_id = ? AND permission_type = ?
CountGrants(perms, user_id, permission_type) ==
    Cardinality({i \in DOMAIN perms :
        perms[i].user_id = user_id /\ perms[i].permission_type = permission_type})

has_permission(tbl, perms, user_id, permission) ==
    LET user_role == get_user_role(tbl, user_id) IN
    IF user_role = NoRole THEN FALSE
    ELSE IF permission \in role_permissions[user_role] THEN TRUE
    ELSE CountGrants(perms, user_id, permission) > 0

\* get_user_permissions: the permissions of the role, when get_user_role
\* answers one, and every permission_type of the user's rows (all of them are
\* values of the enum: grant_permission writes permission.value)
get_user_permissions(tbl, perms, user_id) ==
    LET user_role == get_user_role(tbl, user_id) IN
    (IF user_role # NoRole THEN role_permissions[user_role] ELSE {})
        \cup {perms[i].permission_type :
                 i \in {k \in DOMAIN perms : perms[k].user_id = user_id}}

\* the result of the last PermissionManager call
NoPermRes == [op |-> "init", uid |-> NULL, perm |-> "", ok |-> FALSE]

\* grant_permission: INSERT OR IGNORE; the table has no UNIQUE constraint, so
\* the row is always inserted
grant_permission(user_id, permission, granted_by) ==
    /\ permissions' = Append(permissions,
           [user_id |-> user_id, permission_type |-> permission,
            granted_by |-> granted_by])
    /\ permRes' = [op |-> "grant", uid |-> user_id, perm |-> permission, ok |-> TRUE]
    /\ UNCHANGED authVars

\* a revocation that deletes one grant row, the oldest
revoke_permission_One(user_id, permission) ==
    LET hit == {i \in DOMAIN permissions :
                   permissions[i].user_id = user_id
                     /\ permissions[i].permission_type = permission}
        first == CHOOSE i \in hit : \A k \in hit : i <= k
    IN /\ permissions' =
            IF hit = {} THEN permissions
            ELSE SubSeq(permissions, 1, first - 1)
                    \o SubSeq(permissions, first + 1, Len(permissions))
       /\ permRes' = [op |-> "revoke", uid |-> user_id, perm |-> permission, ok |-> TRUE]
       /\ UNCHANGED authVars

\* revoke_permission: DELETE ... WHERE user_id = ? AND permission_type = ?
revoke_permission(user_id, permission) ==
    /\ permissions' = SelectSeq(permissions,
           LAMBDA r : ~(r.user_id = user_id /\ r.permission_type = permission))
    /\ permRes' = [op |-> "revoke", uid |-> user_id, perm |-> permission, ok |-> TRUE]
    /\ UNCHANGED authVars

\* set_user_role: UPDATE users SET role, then a log row in permissions
set_user_role(user_id, role, granted_by) ==
    /\ users' = [j \in DOMAIN users |->
                    IF j = user_id THEN [users[j] EXCEPT !.role = role] ELSE users[j]]
    /\ permissions' = Append(permissions,
           [user_id |-> user_id, permission_type |-> "role_change_" \o role,
            granted_by |-> granted_by])
    /\ permRes' = [op |-> "set_role", uid |-> user_id, perm |-> role, ok |-> TRUE]
    /\ UNCHANGED <<nextId, current_user, authRes, edits>>

(***************************************************************************)
(* DatabaseManager.execute_update (src/src/core/database.py): one call as  *)
(* a process, one step per attempt of the retry loop.                      *)
(***************************************************************************)
max_retries == 5

\* str(e) of the sqlite3.OperationalError an attempt may raise
LockMessages == {"database is locked", "database is busy"}
OperationalErrors == LockMessages \cup {"no such table: users", "disk I/O error"}
\* errors that are not sqlite3.OperationalError (sqlite3.IntegrityError)
OtherErrors == {"UNIQUE constraint failed: users.email"}

\* the statements executed: query.strip().upper().startswith('INSERT')
Statements == {"INSERT", "UPDATE", "DELETE"}
IsInsert(query) == query = "INSERT"

NoResult == [kind |-> "none", value |-> 0, error |-> ""]

\* wait_time = (0.1 * (2 ** attempt)) + (0.05 * attempt), in units of 50 ms
wait_time(attempt) == 2 * (2 ^ attempt) + attempt

\* the caller calls execute_update(query, params)
execute_update_call(query) ==
    /\ euPc \in {"idle", "returned", "raised"}
    /\ euPc' = "running"
    /\ euQuery' = query
    /\ euAttempt' = 0
    /\ euErrors' = <<>>
    /\ euSlept' = 0
    /\ euResult' = NoResult

\* one pass of `for attempt in range(max_retries)`: the statement is executed
\* and committed and the result returned, or the error is handled; were the loop
\* to end, the method would return None
execute_update_attempt(outcome, value) ==
    /\ euPc = "running"
    /\ IF euAttempt \notin 0..(max_retries - 1)
       THEN /\ euPc' = "returned"
            /\ euResult' = NoResult
            /\ UNCHANGED <<euAttempt, euErrors, euSlept>>
       ELSE IF outcome = "ok"
       THEN /\ euPc' = "returned"
            /\ euResult' = [kind |-> IF IsInsert(euQuery) THEN "lastrowid" ELSE "rowcount",
                            value |-> value, error |-> ""]
            /\ UNCHANGED <<euAttempt, euErrors, euSlept>>
       ELSE IF outcome \in LockMessages /\ euAttempt < max_retries - 1
       THEN /\ euAttempt' = euAttempt + 1
            /\ euErrors' = Append(euErrors, outcome)
            /\ euSlept' = euSlept + wait_time(euAttempt)
            /\ UNCHANGED <<euPc, euResult>>
       ELSE /\ euPc' = "raised"
            /\ euErrors' = Append(euErrors, outcome)
            /\ euResult' = [kind |-> "raise", value |-> 0, error |-> outcome]
            /\ UNCHANGED <<euAttempt, euSlept>>
    /\ UNCHANGED euQuery

UpdIdle ==
    /\ euPc = "idle" /\ euQuery = "" /\ euAttempt = 0
    /\ euErrors = <<>> /\ euSlept = 0 /\ euResult = NoResult

(***************************************************************************)
(* Dates.  The clock `now` counts half days from 2023-12-30 00:00; DateOf  *)
(* is datetime.date() of such a time.                                      *)
(***************************************************************************)
Epoch == [year |-> 2023, month |-> 12, day |-> 30]

IsLeap(y) == (y % 4 = 0 /\ y % 100 # 0) \/ y % 400 = 0

DaysInMonth(y, m) ==
    CASE m = 2 -> IF IsLeap(y) THEN 29 ELSE 28
      [] m \in {4, 6, 9, 11} -> 30
      [] OTHER -> 31

NextDate(d) ==
    IF d.day < DaysInMonth(d.year, d.month) THEN [d EXCEPT !.day = @ + 1]
    ELSE IF d.month < 12 THEN [year |-> d.year, month |-> d.month + 1, day |-> 1]
    ELSE [year |-> d.year + 1, month |-> 1, day |-> 1]

RECURSIVE DateOfDay(_)
DateOfDay(n) == IF n = 0 THEN Epoch ELSE NextDate(DateOfDay(n - 1))

DateOf(t) == DateOfDay(t \div SlotsPerDay)

\* timedelta(days=n)
Days(n) == n * SlotsPerDay

(***************************************************************************)
(* BackupManager (src/src/core/backup_manager.py) and the files it reads   *)
(* and writes.                                                             *)
(***************************************************************************)
\* the content of a file that does not exist
Missing == 0
\* last_backup = None, and "no backup found"
Never == -1

\* what a backup holds of the live files; restore_files copies in this order
FileNames == <<"db", "salt", "settings", "logo">>
NoContent == [db |-> Missing, salt |-> Missing, settings |-> Missing, logo |-> Missing]

\* load_backup_config: default_config
DefaultConfig ==
    [enabled |-> TRUE, frequency |-> "daily", backup_path |-> "backups",
     max_backups |-> 10, last_backup |-> Never]

\* os.path.isabs; "approot" stands for the absolute path of the application root
AbsPaths == {"/srv/backups", "approot/backups"}
IsAbs(path) == path \in AbsPaths

\* a relative path as the operating system resolves it: against the working
\* directory
ResolveCwd(path) == IF IsAbs(path) THEN path ELSE cwd \o "/" \o path

\* a relative path made "relative to the application root"
AppRootPath(path) == IF IsAbs(path) THEN path ELSE "approot/" \o path

\* the id of the next artifact: backup names carry the time to the second, and
\* no two backups of a run are written within one second
NextArtifact(fs) ==
    IF fs = {} THEN 1
    ELSE 1 + (CHOOSE n \in {f.id : f \in fs} : \A f \in fs : f.id <= n)

\* the result of the last BackupManager call: op is the call, ok its boolean
\* result, file the artifact create_backup returned (0 for ""), then the signals
\* emitted, the artifacts written, the live files overwritten, the live files
\* as they were before the call, the restore point written (0 for none) and
\* the backup_file argument of restore_backup
NoBakRes ==
    [op |-> "init", ok |-> FALSE, file |-> 0, started |-> 0, completed |-> 0,
     auto_completed |-> 0, errors |-> 0, created |-> {}, overwritten |-> {},
     pre |-> NoContent, restore_point |-> 0, backup_file |-> 0]

\* the state a call works on, with the result record of the call `op`
World(op) ==
    [files |-> files, cfg |-> backup_config, live |-> live, temp |-> temp_restore,
     res |-> [NoBakRes EXCEPT !.op = op, !.pre = live]]

\* get_backup_list(backup_dir): the entries of the directory whose name starts
\* with the prefix; a directory given by the caller is used as it is, the
\* configured one is resolved against the application root
get_backup_list(W, backup_dir) ==
    LET dir == IF backup_dir = "" THEN AppRootPath(W.cfg.backup_path)
               ELSE ResolveCwd(backup_dir)
    IN {f \in W.files : f.dir = dir}

\* max((b.get('created') for b in backups ...), default=None)
Latest(backups) ==
    IF backups = {} THEN Never
    ELSE CHOOSE t \in {f.created : f \in backups} : \A f \in backups : f.created <= t

\* a check that compares the month numbers without the year
should_perform_backup_NoYear(W) ==
    IF ~W.cfg.enabled THEN FALSE
    ELSE LET latest_backup_dt == Latest(get_backup_list(W, W.cfg.backup_path))
             same_day == latest_backup_dt # Never /\ DateOf(latest_backup_dt) = DateOf(now)
         IN CASE W.cfg.frequency = "daily" -> ~same_day
              [] W.cfg.frequency = "weekly" ->
                    latest_backup_dt = Never \/ now - latest_backup_dt >= Days(7)
              [] W.cfg.frequency = "monthly" ->
                    \/ latest_backup_dt = Never
                    \/ DateOf(now).month - DateOf(latest_backup_dt).month >= 1
              [] OTHER -> ~same_day

should_perform_backup(W) ==
    IF ~W.cfg.enabled THEN FALSE
    ELSE LET latest_backup_dt == Latest(get_backup_list(W, W.cfg.backup_path))
             same_day == latest_backup_dt # Never /\ DateOf(latest_backup_dt) = DateOf(now)
         IN CASE W.cfg.frequency = "daily" -> ~same_day
              [] W.cfg.frequency = "weekly" ->
                    latest_backup_dt = Never \/ now - latest_backup_dt >= Days(7)
              [] W.cfg.frequency = "monthly" ->
                    \/ latest_backup_dt = Never
                    \/ (DateOf(now).year * 12 + DateOf(now).month)
                         - (DateOf(latest_backup_dt).year * 12
                              + DateOf(latest_backup_dt).month) >= 1
              [] OTHER -> ~same_day

\* what an attempt to write a backup may meet: no failure, a failure before the
\* archive is opened (os.makedirs), a failure while the archive is written
IoOutcomes == {"ok", "makedirs", "write"}

\* create_backup(custom_path, auto): every exception is caught, backup_error is
\* emitted and "" returned; an archive that failed while being written stays in
\* the directory, incomplete.  cleanup_old_backups is not called.
create_backup(W, custom_path, auto, io) ==
    LET backup_dir == IF custom_path # "" THEN ResolveCwd(custom_path)
                      ELSE AppRootPath(W.cfg.backup_path)
        id == NextArtifact(W.files)
        artifact == [id |-> id, dir |-> backup_dir, auto |-> auto, created |-> now,
                     content |-> IF io = "ok" THEN W.live ELSE NoContent,
                     complete |-> io = "ok"]
        started == [W.res EXCEPT !.started = @ + 1]
    IN CASE io = "makedirs" ->
              [W EXCEPT !.res = [started EXCEPT !.errors = @ + 1, !.file = 0]]
         [] io = "write" ->
              [W EXCEPT !.files = @ \cup {artifact},
                        !.res = [started EXCEPT !.errors = @ + 1, !.file = 0,
                                                !.created = @ \cup {id}]]
         [] io = "ok" ->
              [W EXCEPT !.files = @ \cup {artifact},
                        !.cfg = [@ EXCEPT !.last_backup = now],
                        !.res = [started EXCEPT
                                    !.file = id, !.created = @ \cup {id},
                                    !.completed = IF auto THEN @ ELSE @ + 1,
                                    !.auto_completed = IF auto THEN @ + 1 ELSE @]]

\* the newest n of a set of artifacts
RECURSIVE Newest(_, _)
Newest(backups, n) ==
    IF n = 0 \/ backups = {} THEN {}
    ELSE LET f == CHOOSE g \in backups :
                      \A h \in backups : h.created < g.created
                                           \/ (h.created = g.created /\ h.id <= g.id)
         IN {f} \cup Newest(backups \ {f}, n - 1)

\* cleanup_old_backups(backup_dir): keeps the max_backups newest entries of the
\* directory; no method of the repository calls it
cleanup_old_backups(W, backup_dir) ==
    LET backups == {f \in W.files : f.dir = backup_dir}
    IN [W EXCEPT !.files = @ \ (backups \ Newest(backups, W.cfg.max_backups))]

\* restore_files(backup_dir): the files the backup folder holds are copied over
\* the live files in the order of FileNames; failAt = k makes the k-th copy
\* raise (0: no copy raises), which is printed and answered with False, the
\* files copied before staying overwritten
restore_files(W, content, failAt) ==
    LET present(k) == content[FileNames[k]] # Missing
        fails == failAt # 0 /\ present(failAt)
        copied == {FileNames[k] : k \in {j \in DOMAIN FileNames :
                                            present(j) /\ (~fails \/ j < failAt)}}
    IN [W EXCEPT !.live = [n \in DOMAIN W.live |->
                              IF n \in copied THEN content[n] ELSE W.live[n]],
                 !.res = [@ EXCEPT !.overwritten = @ \cup copied, !.ok = ~fails]]

\* the folder nyckelhanteraren_backup_<type>_<time> inside an archive
FolderOf(artifact) == [id |-> artifact.id, content |-> artifact.content]

\* what the archive step of a restore may meet: no failure, an archive that
\* cannot be opened, a failure while extracting (the folder is left behind), a
\* failure while removing temp_restore at the end
ZipOutcomes == {"ok", "badzip", "extract", "rmtree"}

\* the except clause of restore_backup
restore_failed(W) == [W EXCEPT !.res = [@ EXCEPT !.errors = @ + 1, !.ok = FALSE]]

\* restore_from_zip(backup_file): extractall into temp_restore, which may hold
\* folders of earlier restores; the folder restored from is the first that
\* os.listdir names, `pick`
restore_from_zip(W, artifact, xio, pick, failAt) ==
    LET extracted == [W EXCEPT !.temp = @ \cup {FolderOf(artifact)}]
        restored == restore_files(extracted, pick.content, failAt)
    IN IF ~artifact.complete \/ xio = "badzip" THEN restore_failed(W)
       ELSE IF xio = "extract" THEN restore_failed(extracted)
       ELSE IF xio = "rmtree" THEN restore_failed(restored)
       ELSE [restored EXCEPT !.temp = {}]

\* restore_backup(backup_file): the restore point is written with create_backup,
\* whose result is not looked at, and then the archive is restored
restore_backup(W, backup_file, rp_io, xio, pick, failAt) ==
    IF \A f \in W.files : f.id # backup_file
    THEN restore_failed(W)
    ELSE LET artifact == CHOOSE f \in W.files : f.id = backup_file
             point == create_backup(W, "backups/restore_point", FALSE, rp_io)
             marked == [point EXCEPT !.res = [@ EXCEPT !.restore_point = point.res.file,
                                                       !.backup_file = backup_file]]
         IN restore_from_zip(marked, artifact, xio, pick, failAt)

\* perform_scheduled_backup
perform_scheduled_backup(W, io) ==
    IF should_perform_backup(W) THEN create_backup(W, "", TRUE, io) ELSE W

\* QTimer: stopped, or running with the time of its next timeout
StoppedTimer == [active |-> FALSE, due |-> 0]
StartedTimer == [active |-> TRUE, due |-> now + Days(1)]

\* AppManager.backup_manager is None
NoManager == [state |-> "none", delay |-> FALSE]

\* a setup that starts the timer whatever the configuration says
setup_timer_Always(W, state) ==
    IF state = "ready" THEN StartedTimer ELSE StoppedTimer

\* setup_automatic_backup: the timer after it ...
setup_timer(W, state) ==
    IF W.cfg.enabled /\ state = "ready" THEN StartedTimer ELSE StoppedTimer

\* ... and the files after it: one check at once unless the start is delayed
setup_automatic_backup(W, delay, io) ==
    IF W.cfg.enabled /\ ~delay THEN perform_scheduled_backup(W, io) ELSE W

SetWorld(W) ==
    /\ files' = W.files
    /\ backup_config' = W.cfg
    /\ live' = W.live
    /\ temp_restore' = W.temp
    /\ bakRes' = W.res

\* BackupManager(db_manager, delay_startup_backup): the configuration is loaded,
\* the timer set up, and unless delayed the check runs at once (a second time
\* after the one of setup_automatic_backup)
BackupManager_init(delay, io1, io2) ==
    LET W0 == World("init")
        W1 == setup_automatic_backup(W0, delay, io1)
        W2 == IF delay THEN W1 ELSE perform_scheduled_backup(W1, io2)
    IN /\ SetWorld(W2)
       /\ backup_timer' = setup_timer(W0, "ready")
       /\ bm' = [state |-> "ready", delay |-> delay]
       /\ UNCHANGED <<now, cwd, dbWrites, app_user>>

\* AppManager.initialize_backup_manager, called when the main window is built,
\* before anyone has logged in
initialize_backup_manager ==
    /\ bm.state = "none"
    /\ BackupManager_init(TRUE, "ok", "ok")

\* the timeout of backup_timer: perform_scheduled_backup; the timer goes on
timer_tick(io) ==
    /\ backup_timer.active
    /\ now >= backup_timer.due
    /\ SetWorld(perform_scheduled_backup(World("tick"), io))
    /\ backup_timer' = [backup_timer EXCEPT !.due = @ + Days(1)]
    /\ UNCHANGED <<now, cwd, dbWrites, bm, app_user>>

\* half a day passes; a timeout that is due comes first
advance ==
    /\ ~(backup_timer.active /\ now >= backup_timer.due)
    /\ now' = now + 1
    /\ UNCHANGED <<cwd, live, dbWrites, files, temp_restore, backup_config,
                   backup_timer, bm, app_user, bakRes>>

\* AppManager.set_current_user, called by on_login_successful:
\* perform_startup_backup_check when there is a backup manager
set_current_user(user_id, io) ==
    /\ app_user' = [user |-> user_id, had_session |-> TRUE]
    /\ SetWorld(IF bm.state = "none" THEN World("set_current_user")
                ELSE perform_scheduled_backup(World("set_current_user"), io))
    /\ UNCHANGED <<now, cwd, dbWrites, backup_timer, bm>>

\* AppManager.clear_current_user
clear_current_user ==
    /\ app_user' = [app_user EXCEPT !.user = 0]
    /\ UNCHANGED <<now, cwd, live, dbWrites, files, temp_restore, backup_config,
                   backup_timer, bm, bakRes>>

\* update_config(config), from the settings window of a logged-in user; the
\* keys given replace those of backup_config, last_backup stays.  After
\* cleanup() the timer object is deleted and cannot be started again.
update_config(config, io) ==
    /\ bm.state # "none"
    /\ app_user.user # 0
    /\ LET W0 == [World("update_config") EXCEPT
                     !.cfg = [config EXCEPT !.last_backup = backup_config.last_backup]]
       IN /\ SetWorld(setup_automatic_backup(W0, bm.delay, io))
          /\ backup_timer' = setup_timer(W0, bm.state)
    /\ UNCHANGED <<now, cwd, dbWrites, bm, app_user>>

\* SettingsWindow.create_manual_backup: create_backup(backup_dir) with the
\* directory chosen in the file dialog
create_manual_backup(backup_dir, io) ==
    /\ bm.state # "none"
    /\ app_user.user # 0
    /\ SetWorld(create_backup(World("create_backup"), backup_dir, FALSE, io))
    /\ UNCHANGED <<now, cwd, dbWrites, backup_timer, bm, app_user>>

\* SettingsWindow.restore_backup: restore_backup(backup_file)
restore(backup_file, rp_io, xio, pick, failAt) ==
    /\ bm.state # "none"
    /\ app_user.user # 0
    /\ SetWorld(restore_backup(World("restore_backup"), backup_file, rp_io, xio,
                               pick, failAt))
    /\ UNCHANGED <<now, cwd, dbWrites, backup_timer, bm, app_user>>

\* BackupManager.cleanup, from SettingsWindow.closeEvent
cleanup ==
    /\ bm.state = "ready"
    /\ bm' = [bm EXCEPT !.state = "cleaned"]
    /\ backup_timer' = StoppedTimer
    /\ UNCHANGED <<now, cwd, live, dbWrites, files, temp_restore, backup_config,
                   app_user, bakRes>>

\* the application writes to the live database
write_db ==
    /\ dbWrites' = dbWrites + 1
    /\ live' = [live EXCEPT !.db = dbWrites + 1]
    /\ UNCHANGED <<now, cwd, files, temp_restore, backup_config, backup_timer,
                   bm, app_user, bakRes>>

\* the live files of an installation in use: a database, its salt, settings
InitialLive == [db |-> 1, salt |-> 1, settings |-> 1, logo |-> Missing]

BakIdle ==
    /\ now = 0 /\ cwd = "approot"
    /\ live = InitialLive /\ dbWrites = 1
    /\ files = {} /\ temp_restore = {}
    /\ backup_config = DefaultConfig
    /\ backup_timer = StoppedTimer
    /\ bm = NoManager
    /\ app_user = [user |-> 0, had_session |-> FALSE]
    /\ bakRes = NoBakRes

nonBakVars == <<authVars, permVars, updVars, extVars>>

PermIdle == permissions = <<>> /\ permRes = NoPermRes

(***************************************************************************)
(* Key systems and orders (src/src/ui/my_systems_window.py).  One key       *)
(* system is modelled; every application running on the database has a     *)
(* systems window of its own.                                              *)
(***************************************************************************)
\* the applications running on the database
Instances == {1, 2}

\* the entries of the billing plan combo ("" for no plan; the names stand for
\* the Swedish spellings), and those the systems table treats as recurring
BillingPlans == {"", "Engangskostnad", "Manadskostnad", "Halvarskostnad", "Helarskostnad"}
RecurringPlans == {"Manadskostnad", "Halvarskostnad", "Helarskostnad"}

\* a key system as add_system_window stores it
NewSystem ==
    [last_sequence_number |-> 0, is_paid |-> FALSE, billing_plan |-> "",
     paid_at |-> Never, last_invoice_date |-> Never]

\* save_key_order of an application whose user is `user` (0: nobody logged in),
\* before any order
IdleSaver(user) ==
    [pc |-> "idle", user |-> user, quantity |-> 0, sequence_start |-> 0,
     sequence_end |-> 0, order_id |-> 0]

\* the row not yet shown; reverted tells whether the load wrote is_paid = 0
NoRow ==
    [loaded |-> FALSE, is_paid |-> FALSE, last_sequence_number |-> 0,
     reverted |-> FALSE]

\* a sequence end that counts one number too many
SequenceEnd_OffByOne(sequence_start, quantity) == sequence_start + quantity

\* sequence_end = sequence_start + quantity - 1
SequenceEnd(sequence_start, quantity) == sequence_start + quantity - 1

\* save_key_order, first commit: INSERT INTO orders
insert_order(p, order_data) ==
    LET sequence_end == SequenceEnd(order_data.sequence_start, order_data.quantity)
        order_id == Len(orders) + 1
    IN /\ saver[p].pc # "inserted"
       /\ saver[p].user # 0
       /\ orders' = Append(orders,
              [id |-> order_id, quantity |-> order_data.quantity,
               sequence_start |-> order_data.sequence_start,
               sequence_end |-> sequence_end, created_by |-> saver[p].user])
       /\ saver' = [saver EXCEPT ![p] =
              [@ EXCEPT !.pc = "inserted", !.quantity = order_data.quantity,
                        !.sequence_start = order_data.sequence_start,
                        !.sequence_end = sequence_end, !.order_id = order_id]]
       /\ UNCHANGED <<key_system, systems_table>>

\* an update that never lowers the sequence number
update_last_sequence_Max(p) ==
    /\ saver[p].pc = "inserted"
    /\ key_system' = [key_system EXCEPT !.last_sequence_number =
                         IF saver[p].sequence_end > @ THEN saver[p].sequence_end ELSE @]
    /\ saver' = [saver EXCEPT ![p].pc = "done"]
    /\ UNCHANGED <<orders, systems_table>>

\* save_key_order, second commit: UPDATE key_systems SET last_sequence_number
update_last_sequence(p) ==
    /\ saver[p].pc = "inserted"
    /\ key_system' = [key_system EXCEPT !.last_sequence_number = saver[p].sequence_end]
    /\ saver' = [saver EXCEPT ![p].pc = "done"]
    /\ UNCHANGED <<orders, systems_table>>

\* save_key_order ends between the two commits: the application is closed or
\* killed, or the UPDATE raises and the except clause shows "Databasfel"
interrupt_save(p) ==
    /\ saver[p].pc = "inserted"
    /\ saver' = [saver EXCEPT ![p].pc = "interrupted"]
    /\ UNCHANGED <<key_system, orders, systems_table>>

\* the edit dialog of a key system: UPDATE key_systems SET ...,
\* last_sequence_number = last_seq_spin.value()
save_system_edit(last_seq) ==
    /\ key_system' = [key_system EXCEPT !.last_sequence_number = last_seq]
    /\ UNCHANGED <<orders, saver, systems_table>>

\* (datetime.now() - paid_dt).days
delta_days(paid_at) == (now - paid_at) \div SlotsPerDay

\* 30 if 'manad' in bp else (182 if 'halvar' in bp else 365)
threshold(bp) ==
    IF bp = "Manadskostnad" THEN 30 ELSE IF bp = "Halvarskostnad" THEN 182 ELSE 365

\* a revert that waits until more than the period has passed
auto_revert_Late(system) ==
    /\ system.is_paid
    /\ system.billing_plan \in RecurringPlans
    /\ system.paid_at # Never
    /\ delta_days(system.paid_at) > threshold(system.billing_plan)

\* "Auto-revert status if period elapsed": the condition of populate_table
auto_revert(system) ==
    /\ system.is_paid
    /\ system.billing_plan \in RecurringPlans
    /\ system.paid_at # Never
    /\ delta_days(system.paid_at) >= threshold(system.billing_plan)

\* populate_table: the row is shown, after UPDATE key_systems SET is_paid = 0
\* and system_dict['is_paid'] = 0 when the period has elapsed
populate_table ==
    /\ key_system' = IF auto_revert(key_system)
                     THEN [key_system EXCEPT !.is_paid = FALSE]
                     ELSE key_system
    /\ systems_table' =
          [loaded |-> TRUE,
           is_paid |-> key_system.is_paid /\ ~auto_revert(key_system),
           last_sequence_number |-> key_system.last_sequence_number,
           reverted |-> auto_revert(key_system)]
    /\ UNCHANGED <<orders, saver>>

\* set_selected_invoice_status(paid), and bulk_set_invoice_status(paid) for
\* each selected row: UPDATE key_systems SET is_paid = 1, paid_at =
\* COALESCE(paid_at, now), last_invoice_date = now, or SET is_paid = 0; the
\* status cell of the row shown is set to match
set_invoice_status(paid) ==
    /\ systems_table.loaded
    /\ key_system' =
          IF paid
          THEN [key_system EXCEPT
                   !.is_paid = TRUE,
                   !.paid_at = IF @ = Never THEN now ELSE @,
                   !.last_invoice_date = now]
          ELSE [key_system EXCEPT !.is_paid = FALSE]
    /\ systems_table' = [systems_table EXCEPT !.is_paid = paid, !.reverted = FALSE]
    /\ UNCHANGED <<orders, saver>>

\* no order yet, nobody at work, the systems list not loaded
KeyIdle ==
    /\ key_system = NewSystem
    /\ orders = <<>>
    /\ saver = [p \in Instances |-> IdleSaver(0)]
    /\ systems_table = NoRow

\* the variables that the systems window leaves alone
nonKeyVars == <<authVars, permVars, updVars, bakVars, tokVars, sysVars>>

(***************************************************************************)
(* VersionManager and UpdateChecker (src/src/core/version_manager.py).  A  *)
(* version string is the sequence of its dot-separated parts, each part    *)
(* the sequence of its decimal digits: "1.05" is <<<<1>>, <<0, 5>>>>.      *)
(***************************************************************************)
\* int(x) of a string of digits
RECURSIVE IntOf(_)
IntOf(digits) ==
    IF digits = <<>> THEN 0
    ELSE 10 * IntOf(SubSeq(digits, 1, Len(digits) - 1)) + digits[Len(digits)]

\* str(n) of a natural number
RECURSIVE Digits(_)
Digits(n) == IF n < 10 THEN <<n>> ELSE Append(Digits(n \div 10), n % 10)

\* float(version), in hundredths, of a version with at most two decimals
FloatOf(ver) ==
    100 * IntOf(ver[1])
      + (IF Len(ver) = 1 THEN 0
         ELSE IF Len(ver[2]) = 1 THEN 10 * ver[2][1]
         ELSE 10 * ver[2][1] + ver[2][2])

\* f"{x:.2f}" of x hundredths: the sum current_float + 0.01 is off by far
\* less than half a hundredth, so the two decimals printed are exact
Format2f(h) == <<Digits(h \div 100), <<(h % 100) \div 10, h % 10>>>>

\* the default version of load_version
DefaultVersion == <<<<1>>, <<0, 5>>>>

\* [int(x) for x in version.split('.')], padded with zeros to length n
Parts(ver, n) == [i \in 1..n |-> IF i <= Len(ver) THEN IntOf(ver[i]) ELSE 0]

\* list comparison a > b of Python, for lists of one length
ListGreater(a, b) ==
    \E i \in DOMAIN a :
        /\ a[i] > b[i]
        /\ \A j \in 1..(i - 1) : a[j] = b[j]

\* UpdateChecker.is_newer_version
is_newer_version(latest, current) ==
    LET max_len == IF Len(latest) > Len(current) THEN Len(latest) ELSE Len(current)
    IN ListGreater(Parts(latest, max_len), Parts(current, max_len))

\* increment_version: the new version string; a trailing ".00" is removed,
\* and otherwise one trailing "0"
new_version(current_version, increment_type) ==
    IF increment_type = "major"
    THEN <<Digits(IntOf(current_version[1]) + 1), <<0, 0>>>>
    ELSE LET printed == Format2f(FloatOf(current_version) + 1)
         IN IF printed[2] = <<0, 0>> THEN <<printed[1]>>
            ELSE IF printed[2][2] = 0 THEN <<printed[1], <<printed[2][1]>>>>
            ELSE printed

\* version.json and the last publication: the version before it, the kind of
\* increment and the number of publications so far
NoVersion ==
    [current_version |-> DefaultVersion, previous |-> DefaultVersion,
     op |-> "init", published |-> 0]

\* increment_version(increment_type), as publish_new_version calls it, with
\* save_version
increment_version(increment_type) ==
    version' = [current_version |-> new_version(version.current_version, increment_type),
                previous |-> version.current_version,
                op |-> increment_type,
                published |-> version.published + 1]

(***************************************************************************)
(* DatabaseManager.initialize, encrypt_data and decrypt_data                *)
(* (src/src/core/database.py).  A string is the sequence of its code       *)
(* points, bytes are sequences of numbers below 256.                       *)
(***************************************************************************)
\* what a call returns, or what it raises instead
Returned(value) == [raised |-> "", value |-> value]
Raised(name) == [raised |-> name, value |-> <<>>]

\* str.encode(): UTF-8, for code points below U+0800
RECURSIVE encode(_)
encode(str) ==
    IF str = <<>> THEN <<>>
    ELSE (IF Head(str) < 128 THEN <<Head(str)>>
          ELSE <<192 + (Head(str) \div 64), 128 + (Head(str) % 64)>>)
         \o encode(Tail(str))

\* bytes.decode(): UTF-8; an ill-formed sequence raises UnicodeDecodeError
RECURSIVE decode(_)
decode(bytes) ==
    IF bytes = <<>> THEN Returned(<<>>)
    ELSE IF bytes[1] < 128
         THEN LET rest == decode(Tail(bytes))
              IN IF rest.raised # "" THEN rest
                 ELSE Returned(<<bytes[1]>> \o rest.value)
    ELSE IF bytes[1] >= 194 /\ bytes[1] < 224 /\ Len(bytes) >= 2
              /\ bytes[2] >= 128 /\ bytes[2] < 192
         THEN LET rest == decode(Tail(Tail(bytes)))
              IN IF rest.raised # "" THEN rest
                 ELSE Returned(<<(bytes[1] - 192) * 64 + (bytes[2] - 128)>>
                                 \o rest.value)
    ELSE Raised("UnicodeDecodeError")

\* the URL-safe base64 alphabet: the character of a 6-bit value
B64Char(v) ==
    IF v < 26 THEN 65 + v
    ELSE IF v < 52 THEN 97 + (v - 26)
    ELSE IF v < 62 THEN 48 + (v - 52)
    ELSE IF v = 62 THEN 45 ELSE 95

\* the 6-bit value of a character of the alphabet
B64Value(c) ==
    IF c >= 65 /\ c <= 90 THEN c - 65
    ELSE IF c >= 97 /\ c <= 122 THEN c - 97 + 26
    ELSE IF c >= 48 /\ c <= 57 THEN c - 48 + 52
    ELSE IF c = 45 THEN 62 ELSE 63

\* the character "="
B64Pad == 61

\* base64.urlsafe_b64encode
RECURSIVE urlsafe_b64encode(_)
urlsafe_b64encode(bytes) ==
    IF bytes = <<>> THEN <<>>
    ELSE IF Len(bytes) = 1
         THEN <<B64Char(bytes[1] \div 4), B64Char((bytes[1] % 4) * 16), B64Pad, B64Pad>>
    ELSE IF Len(bytes) = 2
         THEN <<B64Char(bytes[1] \div 4),
                B64Char((bytes[1] % 4) * 16 + bytes[2] \div 16),
                B64Char((bytes[2] % 16) * 4), B64Pad>>
    ELSE <<B64Char(bytes[1] \div 4),
           B64Char((bytes[1] % 4) * 16 + bytes[2] \div 16),
           B64Char((bytes[2] % 16) * 4 + bytes[3] \div 64),
           B64Char(bytes[3] % 64)>>
         \o urlsafe_b64encode(SubSeq(bytes, 4, Len(bytes)))

\* base64.urlsafe_b64decode of correctly padded text
RECURSIVE urlsafe_b64decode(_)
urlsafe_b64decode(text) ==
    IF Len(text) < 4 THEN <<>>
    ELSE LET a == B64Value(text[1])
             b == B64Value(text[2])
         IN IF text[3] = B64Pad THEN <<a * 4 + b \div 16>>
            ELSE LET c == B64Value(text[3])
                 IN IF text[4] = B64Pad
                    THEN <<a * 4 + b \div 16, (b % 16) * 16 + c \div 4>>
                    ELSE <<a * 4 + b \div 16, (b % 16) * 16 + c \div 4,
                           (c % 4) * 64 + B64Value(text[4])>>
                         \o urlsafe_b64decode(SubSeq(text, 5, Len(text)))

\* the master passwords: the one of initialize() without argument, and another
MasterPasswords == {"temp_init_key_2023", "other"}

\* os.urandom(16): the salts that may be drawn
Salts == {1, 2}

\* self.encryption_key = None; no salt file
NoKey == [password |-> "", salt |-> 0]
NoSalt == 0

\* _derive_key: PBKDF2 of the password and the salt; distinct inputs give
\* distinct keys
derive_key(password, salt) == [password |-> password, salt |-> salt]

\* the byte a key contributes to the cipher and to the signature
KeyByte(key) == (IF key.password = "other" THEN 16 ELSE 32) + key.salt

\* the version byte of a Fernet token
FernetVersion == 128

\* Fernet(key).encrypt(data): the token is base64 of the version byte, the
\* initialization vector, the signature and the ciphertext
fernet_encrypt(key, iv, data) ==
    urlsafe_b64encode(<<FernetVersion, iv, KeyByte(key)>>
                        \o [i \in DOMAIN data |-> (data[i] + KeyByte(key) + iv) % 256])

\* Fernet(key).decrypt(token): a token signed with another key raises
\* InvalidToken
fernet_decrypt(key, token) ==
    LET raw == urlsafe_b64decode(token)
    IN IF Len(raw) < 3 \/ raw[1] # FernetVersion \/ raw[3] # KeyByte(key)
       THEN Raised("InvalidToken")
       ELSE Returned([i \in 1..(Len(raw) - 3) |->
                         (raw[i + 3] + 512 - KeyByte(key) - raw[2]) % 256])

\* encrypt_data(data) with the key and a fresh initialization vector
encrypt_data(key, iv, data) ==
    IF key = NoKey THEN Raised("ValueError")
    ELSE Returned(urlsafe_b64encode(fernet_encrypt(key, iv, encode(data))))

\* decrypt_data(encrypted_data) with the key
decrypt_data(key, encrypted_data) ==
    IF key = NoKey THEN Raised("ValueError")
    ELSE LET decrypted_data == fernet_decrypt(key, urlsafe_b64decode(encrypted_data))
         IN IF decrypted_data.raised # "" THEN decrypted_data
            ELSE decode(decrypted_data.value)

\* a new DatabaseManager on a new installation: no salt file, no key, nothing
\* encrypted, the first run of the application; res is the last call and what
\* it returned
NoCodec ==
    [salt_file |-> NoSalt, encryption_key |-> NoKey, stored |-> {}, session |-> 1,
     res |-> [op |-> "init", ok |-> FALSE, value |-> <<>>]]

\* an initialize that draws a new salt at every start
initialize_NewSalt(master_password, drawn, io) ==
    LET salt == drawn
    IN codec' =
         IF io = "ok"
         THEN [codec EXCEPT !.salt_file = salt,
                            !.encryption_key = derive_key(master_password, salt),
                            !.res = [op |-> "initialize", ok |-> TRUE, value |-> <<>>]]
         ELSE [codec EXCEPT !.res = [op |-> "initialize", ok |-> FALSE, value |-> <<>>]]

\* initialize(master_password): the salt is read from the salt file, or drawn
\* and written when there is none; an exception is printed and answered with
\* False
initialize(master_password, drawn, io) ==
    LET salt == IF codec.salt_file # NoSalt THEN codec.salt_file ELSE drawn
    IN codec' =
         IF io = "ok"
         THEN [codec EXCEPT !.salt_file = salt,
                            !.encryption_key = derive_key(master_password, salt),
                            !.res = [op |-> "initialize", ok |-> TRUE, value |-> <<>>]]
         ELSE [codec EXCEPT !.res = [op |-> "initialize", ok |-> FALSE, value |-> <<>>]]

\* the application is started again: a new DatabaseManager, encryption_key None
restart_database ==
    codec' = [codec EXCEPT !.encryption_key = NoKey, !.session = @ + 1,
                           !.res = [op |-> "restart", ok |-> FALSE, value |-> <<>>]]

\* encrypt_data(data) is called and its result kept, with the plaintext, the
\* master password of the session and the number of the run
encrypt_and_store(data, iv) ==
    LET text == encrypt_data(codec.encryption_key, iv, data).value
    IN codec' =
         IF codec.encryption_key = NoKey
         THEN [codec EXCEPT !.res = [op |-> "encrypt_data", ok |-> FALSE, value |-> <<>>]]
         ELSE [codec EXCEPT
                 !.stored = @ \cup {[text |-> text, data |-> data,
                                     password |-> codec.encryption_key.password,
                                     session |-> codec.session]},
                 !.res = [op |-> "encrypt_data", ok |-> TRUE, value |-> text]]

\* decrypt_data on a ciphertext kept earlier
decrypt_stored(entry) ==
    LET value == decrypt_data(codec.encryption_key, entry.text)
    IN codec' =
         [codec EXCEPT
            !.res = [op |-> "decrypt_data", ok |-> value.raised = "",
                     value |-> value.value]]

(***************************************************************************)
(* DatabaseManager.migrate_database (src/src/core/database.py).  The       *)
(* schema is the set of optional columns and the set of optional tables    *)
(* the database file has; data tells, for each optional column, whether    *)
(* its rows hold what users stored or the default of ADD COLUMN, and rows  *)
(* whether the rows of an optional table are those users stored.           *)
(***************************************************************************)
\* the columns that migrate_database adds when they are missing (of the
\* twenty key_systems columns, some of each group)
OptionalColumns ==
    {"orders.key_responsible", "key_systems.billing_plan", "key_systems.is_paid",
     "key_systems.invoice_count", "key_systems.key_code2", "key_systems.flex3"}

\* the tables that migrate_database creates when they are missing
OptionalTables ==
    {"key_receipts", "key_catalog2", "manufacturing_orders", "invoices", "key_catalog"}

\* the statements of migrate_database in their order; guarded: the statement
\* has a try/except of its own that passes
Migration ==
    <<[op |-> "pragma", name |-> "orders", guarded |-> FALSE],
      [op |-> "add_column", name |-> "orders.key_responsible", guarded |-> FALSE],
      [op |-> "create_table", name |-> "key_receipts", guarded |-> FALSE],
      [op |-> "pragma", name |-> "key_systems", guarded |-> FALSE],
      [op |-> "add_column", name |-> "key_systems.billing_plan", guarded |-> TRUE],
      [op |-> "add_column", name |-> "key_systems.is_paid", guarded |-> TRUE],
      [op |-> "add_column", name |-> "key_systems.invoice_count", guarded |-> TRUE],
      [op |-> "create_table", name |-> "key_catalog2", guarded |-> TRUE],
      [op |-> "pragma", name |-> "key_systems", guarded |-> TRUE],
      [op |-> "add_column", name |-> "key_systems.key_code2", guarded |-> TRUE],
      [op |-> "add_column", name |-> "key_systems.flex3", guarded |-> TRUE],
      [op |-> "create_table", name |-> "manufacturing_orders", guarded |-> FALSE],
      [op |-> "create_table", name |-> "invoices", guarded |-> FALSE],
      [op |-> "create_table", name |-> "key_catalog", guarded |-> FALSE],
      [op |-> "seed", name |-> "key_catalog", guarded |-> TRUE]>>

\* the schema of a database that _create_database and an earlier
\* migrate_database have completed: every optional column and table, with the
\* rows users stored; seen is what the last PRAGMA table_info answered, seeded
\* counts the seedings of key_catalog; res is the last migrate_database call:
\* the statement the database refused (0: none), the exceptions caught, and
\* whether the migration was given up with a printed message
CurrentSchema ==
    [columns |-> OptionalColumns, tables |-> OptionalTables,
     data |-> [c \in OptionalColumns |-> "stored"],
     rows |-> [t \in OptionalTables |-> "stored"],
     seen |-> {}, seeded |-> 0,
     res |-> [op |-> "init", raised |-> FALSE, printed |-> FALSE, caught |-> 0,
              failAt |-> 0, runs |-> 0]]

\* a migration that issues every ALTER TABLE without looking at the columns
IsPresent_NoCheck(S, column) == FALSE

\* 'col' in columns, with the columns PRAGMA table_info answered
IsPresent(S, column) == column \in S.seen

\* the exception of a statement is caught
Caught(S) == [S EXCEPT !.res.caught = @ + 1]

\* one statement of the migration on the database S: the database refuses the
\* statement numbered res.failAt, and an ALTER TABLE that adds a column the
\* table has
Execute(S, i) ==
    LET stmt == Migration[i]
        refused == i = S.res.failAt
    IN CASE stmt.op = "pragma" -> [S EXCEPT !.seen = S.columns]
         [] stmt.op = "add_column" ->
              IF IsPresent(S, stmt.name) THEN S
              ELSE IF refused \/ stmt.name \in S.columns THEN Caught(S)
              ELSE [S EXCEPT !.columns = @ \cup {stmt.name},
                             !.data = [c \in S.columns \cup {stmt.name} |->
                                         IF c \in S.columns THEN S.data[c]
                                         ELSE "default"]]
         [] stmt.op = "create_table" ->
              IF refused THEN Caught(S)
              ELSE IF stmt.name \in S.tables THEN S
              ELSE [S EXCEPT !.tables = @ \cup {stmt.name},
                             !.rows = [t \in S.tables \cup {stmt.name} |->
                                         IF t \in S.tables THEN S.rows[t]
                                         ELSE "empty"]]
         [] stmt.op = "seed" ->
              IF refused THEN Caught(S)
              ELSE [S EXCEPT !.rows = [@ EXCEPT ![stmt.name] = "seeded"],
                             !.seeded = @ + 1]

\* the statements from the i-th on: a statement that raises is passed over
\* when it is guarded, and ends the migration with a printed message when it
\* is not
RECURSIVE RunMigration(_, _)
RunMigration(S, i) ==
    IF i > Len(Migration) THEN S
    ELSE LET T == Execute(S, i)
         IN IF T.res.caught > S.res.caught /\ ~Migration[i].guarded
            THEN [T EXCEPT !.res.printed = TRUE]
            ELSE RunMigration(T, i + 1)

\* migrate_database: nothing is raised to the caller, the connection is closed
migrate_database(failAt) ==
    schema' =
        RunMigration([schema EXCEPT
                        !.seen = {},
                        !.res = [op |-> "migrate_database", raised |-> FALSE,
                                 printed |-> FALSE, caught |-> 0,
                                 failAt |-> failAt,
                                 runs |-> schema.res.runs + 1]], 1)

(***************************************************************************)
(* The rows that belong to a key system: its customer, its orders, the     *)
(* key receipts and manufacturing orders of its orders, its invoices; and  *)
(* KeyFobReturnDialog.delete_system_data                                   *)
(* (src/src/ui/key_fob_return_dialog.py).  Foreign keys are declared       *)
(* without ON DELETE and PRAGMA foreign_keys is never set, so SQLite does  *)
(* not enforce them.                                                       *)
(***************************************************************************)
\* an empty database; res is the last call of delete_system_data
NoStore ==
    [customers |-> {}, key_systems |-> {}, orders |-> {}, key_receipts |-> {},
     manufacturing_orders |-> {}, invoices |-> {}, nextOrder |-> 1, nextInvoice |-> 1,
     res |-> [op |-> "init", system |-> 0, customer |-> 0, completed |-> FALSE,
              calls |-> 0]]

\* save_key_order: INSERT INTO orders, with an AUTOINCREMENT id
store_order(key_system_id) ==
    /\ \E ks \in store.key_systems : ks.id = key_system_id
    /\ store' = [store EXCEPT
                   !.orders = @ \cup {[id |-> store.nextOrder,
                                        key_system_id |-> key_system_id]},
                   !.nextOrder = @ + 1]

\* INSERT INTO key_receipts (order_id, pdf_encrypted); order_id is UNIQUE, a
\* second receipt replaces the first
store_key_receipt(order_id) ==
    /\ \E o \in store.orders : o.id = order_id
    /\ store' = [store EXCEPT !.key_receipts = @ \cup {order_id}]

\* INSERT INTO manufacturing_orders (order_id, pdf_encrypted), else UPDATE
store_manufacturing_order(order_id) ==
    /\ \E o \in store.orders : o.id = order_id
    /\ store' = [store EXCEPT !.manufacturing_orders = @ \cup {order_id}]

\* INSERT INTO invoices (system_id, pdf_encrypted)
store_invoice(system_id) ==
    /\ \E ks \in store.key_systems : ks.id = system_id
    /\ store' = [store EXCEPT
                   !.invoices = @ \cup {[id |-> store.nextInvoice,
                                          system_id |-> system_id]},
                   !.nextInvoice = @ + 1]

\* delete_system_data for the key system system_data: the three DELETE
\* statements are committed one by one; failAt is the one that raises
\* (0: none), after which the error dialog is shown and the rest is not run
delete_system_data(system_data, failAt) ==
    LET customer_id == system_data.customer_id
        key_system_id == system_data.id
        orders1 == IF failAt = 1 THEN store.orders
                   ELSE {o \in store.orders : o.key_system_id # key_system_id}
        systems2 == IF failAt \in {1, 2} THEN store.key_systems
                    ELSE {ks \in store.key_systems : ks.id # key_system_id}
        remaining_systems ==
            Cardinality({ks \in systems2 : ks.customer_id = customer_id})
        customers3 == IF failAt # 0 \/ remaining_systems # 0 THEN store.customers
                      ELSE store.customers \ {customer_id}
    IN store' = [store EXCEPT
                   !.orders = orders1,
                   !.key_systems = systems2,
                   !.customers = customers3,
                   !.res = [op |-> "delete_system_data", system |-> key_system_id,
                            customer |-> customer_id, completed |-> failAt = 0,
                            calls |-> store.res.calls + 1]]

(***************************************************************************)
(* LicenseManager (src/src/core/license_manager.py).  Time is counted in   *)
(* days; a licence file is the dictionary that was encrypted into it,      *)
(* together with the machine whose key encrypted it.                       *)
(***************************************************************************)
\* dict.update(other): the keys of other replace or extend those of d
update(d, other) ==
    [k \in DOMAIN d \cup DOMAIN other |-> IF k \in DOMAIN other THEN other[k] ELSE d[k]]

\* dict.get(key, default)
get(d, key, default) == IF key \in DOMAIN d THEN d[key] ELSE default

\* timedelta(days=365) of create_license
LicenseDays == 365

\* the default of max_users in create_license
DefaultMaxUsers == 5

\* the days argument of create_trial_license when none is given
DefaultTrialDays == 30

\* max_users of a licence activated with a licence key
FullMaxUsers == 10

\* no licence file, machine 1, day 0; call is the last creation, res the last
\* validation
NoLicense ==
    [exists |-> FALSE, data |-> [machine_id |-> 0], key |-> 0,
     machine_id |-> 1, now |-> 0,
     call |-> [op |-> "init", days |-> 0, at |-> 0, returned |-> FALSE, calls |-> 0],
     res |-> [op |-> "init", valid |-> FALSE, message |-> ""]]

\* the dictionary and the return value of create_license(license_data); io is
\* "error" when the file cannot be written
license_file(license_data, io) ==
    LET data == update(license_data,
                       [machine_id |-> license.machine_id,
                        created_at |-> license.now,
                        expires_at |-> license.now + LicenseDays,
                        version |-> "1.0.0",
                        features |-> <<"full_access">>,
                        max_users |-> get(license_data, "max_users", DefaultMaxUsers)])
    IN IF io = "error"
       THEN [exists |-> license.exists, data |-> license.data, key |-> license.key,
             returned |-> FALSE]
       ELSE [exists |-> TRUE, data |-> data, key |-> license.machine_id,
             returned |-> TRUE]

\* create_license, called by activate_license of the dialog
create_license(license_data, io) ==
    LET f == license_file(license_data, io)
    IN license' = [license EXCEPT
                     !.exists = f.exists, !.data = f.data, !.key = f.key,
                     !.call = [op |-> "create_license", days |-> LicenseDays,
                               at |-> license.now, returned |-> f.returned,
                               calls |-> @.calls + 1]]

\* create_trial_license(days)
create_trial_license(days, io) ==
    LET trial_data == update([license_type |-> "Trial", company |-> "Trial User",
                              max_users |-> 1, active |-> TRUE],
                             [machine_id |-> license.machine_id,
                              created_at |-> license.now,
                              expires_at |-> license.now + days,
                              version |-> "1.0.0",
                              features |-> <<"limited_access">>])
        f == license_file(trial_data, io)
    IN license' = [license EXCEPT
                     !.exists = f.exists, !.data = f.data, !.key = f.key,
                     !.call = [op |-> "create_trial_license", days |-> days,
                               at |-> license.now, returned |-> f.returned,
                               calls |-> @.calls + 1]]

\* the pair returned by validate_license; a file encrypted with the key of
\* another machine does not decrypt
validate(L) ==
    IF ~L.exists THEN [valid |-> FALSE, message |-> "Ingen licens hittades"]
    ELSE IF L.key # L.machine_id
    THEN [valid |-> FALSE, message |-> "Licensvalidering misslyckades"]
    ELSE IF get(L.data, "machine_id", 0) # L.machine_id
    THEN [valid |-> FALSE, message |-> "Licensen är inte giltig för denna dator"]
    ELSE IF L.now > L.data.expires_at
    THEN [valid |-> FALSE, message |-> "Licensen har gått ut"]
    ELSE IF ~get(L.data, "active", TRUE)
    THEN [valid |-> FALSE, message |-> "Licensen är inaktiverad"]
    ELSE [valid |-> TRUE, message |-> ""]

\* validate_license
validate_license ==
    license' = [license EXCEPT
                  !.res = [op |-> "validate_license", valid |-> validate(license).valid,
                           message |-> validate(license).message]]

\* nothing published, no schema change, nothing encrypted or deleted
SysIdle ==
    /\ version = NoVersion /\ codec = NoCodec /\ schema = CurrentSchema
    /\ store = NoStore /\ license = NoLicense

\* the variables that the version manager leaves alone
nonSysVars == <<authVars, permVars, updVars, bakVars, tokVars, keyVars>>

\* no reset token drawn yet
TokIdle == nextToken = 1

ExtIdle == TokIdle /\ KeyIdle /\ SysIdle

NonAuthIdle == PermIdle /\ UpdIdle /\ BakIdle /\ ExtIdle

vars == <<authVars, permVars, updVars, bakVars, extVars>>

(***************************************************************************)
(* SpecAuth: registration, verification, login, logout and the             *)
(* administrator's edits, from a fresh database or from the database of an *)
(* earlier version that still holds a legacy SHA-256 hash.                 *)
(***************************************************************************)
\* a verified user of an earlier version, with a legacy hash
LegacyUsers ==
    Insert(FreshUsers, 2,
        [NewRow("alice", "alice@x.se", sha256_hexdigest("Secret123!")) EXCEPT
            !.is_verified = TRUE, !.totp_secret = 2])

\* what the administrator changes in UserDialog in this specification: the
\* password, the "inactivate" box and the two-factor box of row id.  The dialog
\* is loaded with the row's username and email, and its role combo with the
\* row's role when the combo has it and with its first entry, "User", otherwise.
AuthEdits(id) ==
    [username : {users[id].username}, email : {users[id].email},
     role : {IF users[id].role \in RoleCombo THEN users[id].role ELSE "User"},
     password : {"", "Secret123!"}, is_active : BOOLEAN,
     two_factor_enabled : BOOLEAN]

\* the TOTP codes tried: none, and the codes of the secrets issued so far for
\* the current time step and for one MaxSkew steps off
TotpCodes == {NoCode} \cup [secret : 2..MaxUsers, skew : {0, MaxSkew}]

InitAuth ==
    /\ users \in {FreshUsers, LegacyUsers}
    /\ nextId = Cardinality(DOMAIN users) + 1
    /\ current_user = NoUser
    /\ authRes = NoRes
    /\ edits = 0
    /\ NonAuthIdle

Register ==
    /\ nextId <= MaxUsers
    /\ \E username \in UserNames, email \in Emails, password \in Passwords :
          register_user(username, email, password)
    /\ UNCHANGED nonAuthVars

VerifyEmail ==
    /\ \E token \in 1..MaxUsers : verify_email(token)
    /\ UNCHANGED nonAuthVars

Login ==
    /\ \E u \in Identifiers, p \in Passwords, t \in TotpCodes : login(u, p, t)
    /\ UNCHANGED nonAuthVars

Logout == logout /\ UNCHANGED nonAuthVars

EditUser ==
    /\ edits < MaxEdits
    /\ \E id \in DOMAIN users : \E d \in AuthEdits(id) : save_user_edit(id, d)
    /\ UNCHANGED nonAuthVars

NextAuth == Register \/ VerifyEmail \/ Login \/ Logout \/ EditUser

SpecAuth == InitAuth /\ [][NextAuth]_vars

(***************************************************************************)
(* SpecRegister: registrations, verifications and logins on a fresh        *)
(* database, with room for two registered users.                           *)
(***************************************************************************)
InitRegister ==
    /\ users = FreshUsers
    /\ nextId = 2
    /\ current_user = NoUser
    /\ authRes = NoRes
    /\ edits = 0
    /\ NonAuthIdle

RegisterR ==
    /\ nextId <= MaxRows
    /\ \E username \in UserNames, email \in Emails, password \in Passwords :
          register_user(username, email, password)
    /\ UNCHANGED nonAuthVars

VerifyEmailR ==
    /\ \E token \in 1..MaxRows : verify_email(token)
    /\ UNCHANGED nonAuthVars

LoginR ==
    /\ \E u \in Identifiers, p \in Passwords : login(u, p, NoCode)
    /\ UNCHANGED nonAuthVars

LogoutR == logout /\ UNCHANGED nonAuthVars

NextRegister == RegisterR \/ VerifyEmailR \/ LoginR \/ LogoutR

SpecRegister == InitRegister /\ [][NextRegister]_vars

(***************************************************************************)
(* SpecFresh: the operations of SpecAuth on a fresh database, where every  *)
(* row but the administrator's was created by register_user.               *)
(***************************************************************************)
RegisterF ==
    /\ nextId <= MaxUsers
    /\ \E username \in UserNames, email \in Emails, password \in Passwords :
          register_user(username, email, password)
    /\ UNCHANGED nonAuthVars

VerifyEmailF ==
    /\ \E token \in 1..MaxUsers : verify_email(token)
    /\ UNCHANGED nonAuthVars

LoginF ==
    /\ \E u \in Identifiers, p \in Passwords, t \in TotpCodes : login(u, p, t)
    /\ UNCHANGED nonAuthVars

LogoutF == logout /\ UNCHANGED nonAuthVars

EditUserF ==
    /\ edits < MaxEdits
    /\ \E id \in DOMAIN users : \E d \in AuthEdits(id) : save_user_edit(id, d)
    /\ UNCHANGED nonAuthVars

NextFresh == RegisterF \/ VerifyEmailF \/ LoginF \/ LogoutF \/ EditUserF

SpecFresh == InitRegister /\ [][NextFresh]_vars

(***************************************************************************)
(* SpecPerm: registrations on a fresh database and the calls of the        *)
(* PermissionManager on the rows of the users table.                       *)
(***************************************************************************)
\* the permissions granted and revoked: one that every role has, one that
\* managers and administrators have, one that only administrators have
GrantInputs == {"view_customer", "create_customer", "manage_settings"}

RegisterP ==
    /\ nextId <= MaxUsers
    /\ \E username \in UserNames, email \in Emails :
          register_user(username, email, "Secret123!")
    /\ UNCHANGED nonAuthVars

GrantP ==
    /\ Len(permissions) < MaxPermRows
    /\ \E user_id \in DOMAIN users, permission \in GrantInputs,
          granted_by \in AdminIds(users) :
          grant_permission(user_id, permission, granted_by)
    /\ UNCHANGED <<updVars, bakVars, extVars>>

RevokeP ==
    /\ \E user_id \in DOMAIN users, permission \in GrantInputs :
          revoke_permission(user_id, permission)
    /\ UNCHANGED <<updVars, bakVars, extVars>>

SetRoleP ==
    /\ Len(permissions) < MaxPermRows
    /\ \E user_id \in DOMAIN users, role \in UserRole, granted_by \in AdminIds(users) :
          set_user_role(user_id, role, granted_by)
    /\ UNCHANGED <<updVars, bakVars, extVars>>

NextPerm == RegisterP \/ GrantP \/ RevokeP \/ SetRoleP

SpecPerm == InitRegister /\ [][NextPerm]_vars

(***************************************************************************)
(* SpecAdmin: sessions of the application on one database.  In a session   *)
(* users register and log in and the administrator edits, creates and      *)
(* deletes rows in the users window; startup begins the next session.      *)
(***************************************************************************)
\* what the administrator may enter in UserDialog for row id: the username and
\* the email as loaded or typed over, the role as the combo shows it
AdminEdits(id) ==
    [username : {users[id].username} \cup UserNames,
     email : {users[id].email} \cup Emails,
     role : {IF users[id].role \in RoleCombo THEN users[id].role ELSE "User"},
     password : {""}, is_active : BOOLEAN, two_factor_enabled : {FALSE}]

\* what the administrator enters for a new user
NewUserInputs ==
    [username : UserNames, email : Emails, role : {"User"},
     password : {"Secret123!"}, is_active : {TRUE}, two_factor_enabled : {FALSE}]

RegisterA ==
    /\ nextId <= MaxRows
    /\ \E username \in UserNames, email \in Emails :
          register_user(username, email, "Secret123!")
    /\ UNCHANGED nonAuthVars

LoginA ==
    /\ \E u \in Identifiers, p \in Passwords : login(u, p, NoCode)
    /\ UNCHANGED nonAuthVars

EditUserA ==
    /\ edits < MaxEdits
    /\ \E id \in DOMAIN users : \E d \in AdminEdits(id) : save_user_edit(id, d)
    /\ UNCHANGED nonAuthVars

CreateUserA ==
    /\ edits < MaxEdits
    /\ nextId <= MaxRows
    /\ \E d \in NewUserInputs : save_user_new(d)
    /\ UNCHANGED nonAuthVars

DeleteUserA ==
    /\ edits < MaxEdits
    /\ \E id \in DOMAIN users : delete_user(id)
    /\ UNCHANGED nonAuthVars

StartupA ==
    /\ nextId <= MaxRows
    /\ startup
    /\ UNCHANGED nonAuthVars

NextAdmin == RegisterA \/ LoginA \/ EditUserA \/ CreateUserA \/ DeleteUserA \/ StartupA

SpecAdmin == InitRegister /\ [][NextAdmin]_vars

(***************************************************************************)
(* SpecUpdate: calls of execute_update, each attempt succeeding or failing *)
(* with one of the errors.                                                 *)
(***************************************************************************)
InitUpdate ==
    /\ users = FreshUsers /\ nextId = 2 /\ current_user = NoUser
    /\ authRes = NoRes /\ edits = 0
    /\ PermIdle
    /\ UpdIdle
    /\ ExtIdle
    /\ BakIdle

CallU ==
    /\ \E query \in Statements : execute_update_call(query)
    /\ UNCHANGED <<authVars, permVars, bakVars, extVars>>

AttemptU ==
    /\ \E outcome \in {"ok"} \cup OperationalErrors \cup OtherErrors :
       \E value \in IF outcome # "ok" THEN {0}
                    ELSE IF IsInsert(euQuery) THEN 1..MaxRowId ELSE 0..MaxRowCount :
          execute_update_attempt(outcome, value)
    /\ UNCHANGED <<authVars, permVars, bakVars, extVars>>

NextUpdate == CallU \/ AttemptU

SpecUpdate == InitUpdate /\ [][NextUpdate]_vars

(***************************************************************************)
(* SpecRestore: the application is started, a user logs in, the database   *)
(* is written, backups are made by hand and restored; every write of an    *)
(* archive and every step of a restore may fail.                           *)
(***************************************************************************)
InitBackup ==
    /\ users = FreshUsers /\ nextId = 2 /\ current_user = NoUser
    /\ authRes = NoRes /\ edits = 0
    /\ PermIdle
    /\ UpdIdle
    /\ ExtIdle
    /\ BakIdle

\* the folder picked when the archive named does not exist
NoFolder == [id |-> 0, content |-> NoContent]

\* the folders os.listdir may name first in temp_restore, once the archive
\* backup_file is extracted there
Picks(backup_file) ==
    IF \A f \in files : f.id # backup_file THEN {NoFolder}
    ELSE temp_restore \cup {FolderOf(f) : f \in {g \in files : g.id = backup_file}}

InitManagerS == initialize_backup_manager /\ UNCHANGED nonBakVars

LoginS ==
    /\ Cardinality(files) < MaxArtifacts
    /\ \E io \in IoOutcomes : set_current_user(1, io)
    /\ UNCHANGED nonBakVars

WriteDbS ==
    /\ dbWrites < MaxWrites
    /\ write_db
    /\ UNCHANGED nonBakVars

ManualBackupS ==
    /\ Cardinality(files) < MaxArtifacts
    /\ \E io \in IoOutcomes : create_manual_backup("/srv/backups", io)
    /\ UNCHANGED nonBakVars

RestoreS ==
    /\ Cardinality(files) < MaxArtifacts
    /\ \E backup_file \in {f.id : f \in files} \cup {0} :
       \E rp_io \in IoOutcomes, xio \in ZipOutcomes, failAt \in 0..Len(FileNames) :
       \E pick \in Picks(backup_file) :
          restore(backup_file, rp_io, xio, pick, failAt)
    /\ UNCHANGED nonBakVars

NextRestore == InitManagerS \/ LoginS \/ WriteDbS \/ ManualBackupS \/ RestoreS

SpecRestore == InitBackup /\ [][NextRestore]_vars

(***************************************************************************)
(* SpecSchedule: the application is started, the timer runs, users log in  *)
(* and out, change the backup settings, make backups by hand and close the *)
(* settings window, while time passes.                                     *)
(***************************************************************************)
\* what save_backup_settings passes to update_config
ConfigInputs ==
    [enabled : BOOLEAN, frequency : {"daily", "weekly", "monthly"},
     backup_path : {"backups"}, max_backups : {1, 2}, last_backup : {Never}]

InitManagerT == initialize_backup_manager /\ UNCHANGED nonBakVars

TickT ==
    /\ Cardinality(files) < MaxArtifacts
    /\ \E io \in IoOutcomes : timer_tick(io)
    /\ UNCHANGED nonBakVars

AdvanceT ==
    /\ now < MaxNow
    /\ advance
    /\ UNCHANGED nonBakVars

LoginT ==
    /\ Cardinality(files) < MaxArtifacts
    /\ \E io \in IoOutcomes : set_current_user(1, io)
    /\ UNCHANGED nonBakVars

LogoutT == clear_current_user /\ UNCHANGED nonBakVars

UpdateConfigT ==
    /\ Cardinality(files) < MaxArtifacts
    /\ \E config \in ConfigInputs, io \in IoOutcomes : update_config(config, io)
    /\ UNCHANGED nonBakVars

ManualBackupT ==
    /\ Cardinality(files) < MaxArtifacts
    /\ \E io \in IoOutcomes : create_manual_backup("approot/backups", io)
    /\ UNCHANGED nonBakVars

CleanupT == cleanup /\ UNCHANGED nonBakVars

NextSchedule ==
    \/ InitManagerT \/ TickT \/ AdvanceT \/ LoginT \/ LogoutT
    \/ UpdateConfigT \/ ManualBackupT \/ CleanupT

SpecSchedule == InitBackup /\ [][NextSchedule]_vars

(***************************************************************************)
(* SpecCadence: should_perform_backup on every configuration, time of the  *)
(* call and set of backups found, from a window that spans the turn of the *)
(* year and the turn of January.                                           *)
(***************************************************************************)
\* the cadences a configuration file may hold: the three of the settings
\* window, and a string that is none of them
Frequencies == {"daily", "weekly", "monthly", "hourly"}

\* an archive written at time t into directory dir
ArtifactAt(id, dir, t) ==
    [id |-> id, dir |-> dir, auto |-> TRUE, created |-> t,
     content |-> InitialLive, complete |-> TRUE]

\* the backups found on disk: none, one in another directory only, one in the
\* configured directory written at time t, or that one and an older one, a
\* half day or a week older
BackupSets(t) ==
    {{}, {ArtifactAt(1, "/srv/backups", t)}, {ArtifactAt(1, "approot/backups", t)}}
    \cup {{ArtifactAt(1, "approot/backups", t), ArtifactAt(2, "approot/backups", t - d)} :
             d \in {d \in {1, Days(7)} : d <= t}}

InitCadence ==
    /\ users = FreshUsers /\ nextId = 2 /\ current_user = NoUser
    /\ authRes = NoRes /\ edits = 0
    /\ PermIdle
    /\ UpdIdle
    /\ ExtIdle
    /\ now \in 0..(Days(MaxDay + 1) - 1)
    /\ cwd = "approot"
    /\ live = InitialLive /\ dbWrites = 1
    /\ \E t \in 0..now : files \in BackupSets(t)
    /\ temp_restore = {}
    /\ \E enabled \in BOOLEAN, frequency \in Frequencies :
          backup_config = [DefaultConfig EXCEPT !.enabled = enabled,
                                                !.frequency = frequency]
    /\ backup_timer = StoppedTimer
    /\ bm = [state |-> "ready", delay |-> TRUE]
    /\ app_user = [user |-> 0, had_session |-> FALSE]
    /\ bakRes = NoBakRes

\* a call of should_perform_backup()
CheckDue ==
    /\ bakRes.op = "init"
    /\ bakRes' = [NoBakRes EXCEPT !.op = "should_perform_backup",
                                  !.ok = should_perform_backup(World("should_perform_backup"))]
    /\ UNCHANGED <<now, cwd, live, dbWrites, files, temp_restore, backup_config,
                   backup_timer, bm, app_user>>
    /\ UNCHANGED nonBakVars

NextCadence == CheckDue

SpecCadence == InitCadence /\ [][NextCadence]_vars

(***************************************************************************)
(* SpecReset: registrations, verifications, password-reset requests and    *)
(* password resets on a fresh database.                                    *)
(***************************************************************************)
RegisterQ ==
    /\ nextId <= MaxUsers
    /\ \E username \in UserNames, email \in Emails, password \in Passwords :
          register_user(username, email, password)
    /\ UNCHANGED nonAuthVars

VerifyEmailQ ==
    /\ \E token \in NULL..MaxUsers : verify_email(token)
    /\ UNCHANGED nonAuthVars

RequestResetQ ==
    /\ nextToken <= MaxTokens
    /\ \E email \in Emails \cup {AdminEmail} : request_password_reset(email)
    /\ UNCHANGED nonTokVars

ResetPasswordQ ==
    /\ \E token \in NULL..MaxTokens, new_password \in Passwords :
          reset_password(token, new_password)
    /\ UNCHANGED nonTokVars

NextReset == RegisterQ \/ VerifyEmailQ \/ RequestResetQ \/ ResetPasswordQ

SpecReset == InitRegister /\ [][NextReset]_vars

(***************************************************************************)
(* SpecLegacy: logins and logouts on the database of an earlier version,   *)
(* whose user alice still has a legacy SHA-256 hash.                       *)
(***************************************************************************)
InitLegacy ==
    /\ users = LegacyUsers
    /\ nextId = 3
    /\ current_user = NoUser
    /\ authRes = NoRes
    /\ edits = 0
    /\ NonAuthIdle

LoginL ==
    /\ \E u \in Identifiers, p \in Passwords, t \in TotpCodes : login(u, p, t)
    /\ UNCHANGED nonAuthVars

LogoutL == logout /\ UNCHANGED nonAuthVars

NextLegacy == LoginL \/ LogoutL

SpecLegacy == InitLegacy /\ [][NextLegacy]_vars

(***************************************************************************)
(* SpecOrders: two applications on one database save orders for the same   *)
(* key system, each in two commits; a save may end between the two, and    *)
(* the key system may be edited.                                           *)
(***************************************************************************)
\* what CreateKeyDialog hands over: both spin boxes run from 1 to 9999
OrderInputs == [quantity : {1, 2, 5}, sequence_start : {1, 2, 10}]

\* the values given to last_seq_spin
LastSeqInputs == {0, 7}

InitOrders ==
    /\ users = FreshUsers /\ nextId = 2 /\ current_user = NoUser
    /\ authRes = NoRes /\ edits = 0
    /\ PermIdle
    /\ UpdIdle
    /\ BakIdle
    /\ TokIdle
    /\ SysIdle
    /\ key_system = NewSystem
    /\ orders = <<>>
    /\ saver \in [Instances -> {IdleSaver(user) : user \in {0, 1}}]
    /\ systems_table = NoRow

InsertOrderO ==
    /\ Len(orders) < MaxOrders
    /\ \E p \in Instances, order_data \in OrderInputs : insert_order(p, order_data)
    /\ UNCHANGED nonKeyVars

UpdateSequenceO ==
    /\ \E p \in Instances : update_last_sequence(p)
    /\ UNCHANGED nonKeyVars

InterruptO ==
    /\ \E p \in Instances : interrupt_save(p)
    /\ UNCHANGED nonKeyVars

EditSystemO ==
    /\ \E last_seq \in LastSeqInputs : save_system_edit(last_seq)
    /\ UNCHANGED nonKeyVars

NextOrders == InsertOrderO \/ UpdateSequenceO \/ InterruptO \/ EditSystemO

SpecOrders == InitOrders /\ [][NextOrders]_vars

(***************************************************************************)
(* SpecBilling: the systems list is loaded for a key system in every       *)
(* billing state, at every time of a year and a day after the payment.     *)
(***************************************************************************)
\* the times of payment: none, and the two halves of the first day
PaidAtInputs == {Never, 0, 1}

InitBilling ==
    /\ users = FreshUsers /\ nextId = 2 /\ current_user = NoUser
    /\ authRes = NoRes /\ edits = 0
    /\ PermIdle
    /\ UpdIdle
    /\ TokIdle
    /\ SysIdle
    /\ now \in 0..(Days(MaxBillingDay + 1) - 1)
    /\ cwd = "approot"
    /\ live = InitialLive /\ dbWrites = 1
    /\ files = {} /\ temp_restore = {}
    /\ backup_config = DefaultConfig
    /\ backup_timer = StoppedTimer
    /\ bm = NoManager
    /\ app_user = [user |-> 0, had_session |-> FALSE]
    /\ bakRes = NoBakRes
    /\ key_system \in [last_sequence_number : {0}, is_paid : BOOLEAN,
                       billing_plan : BillingPlans, paid_at : PaidAtInputs,
                       last_invoice_date : {Never}]
    /\ orders = <<>>
    /\ saver = [p \in Instances |-> IdleSaver(0)]
    /\ systems_table = NoRow

LoadSystemsB ==
    /\ ~systems_table.loaded
    /\ populate_table
    /\ UNCHANGED nonKeyVars

NextBilling == LoadSystemsB

SpecBilling == InitBilling /\ [][NextBilling]_vars

(***************************************************************************)
(* SpecLaunch: the application is started from its own directory or from   *)
(* another one; the timer runs and users log in and out over two days,     *)
(* with the default backup configuration.                                  *)
(***************************************************************************)
\* os.getcwd() at the start of the process: the application root, or the
\* directory of whoever launched it
WorkDirs == {"approot", "desktop"}

InitLaunch ==
    /\ users = FreshUsers /\ nextId = 2 /\ current_user = NoUser
    /\ authRes = NoRes /\ edits = 0
    /\ PermIdle
    /\ UpdIdle
    /\ ExtIdle
    /\ now = 0 /\ cwd \in WorkDirs
    /\ live = InitialLive /\ dbWrites = 1
    /\ files = {} /\ temp_restore = {}
    /\ backup_config = DefaultConfig
    /\ backup_timer = StoppedTimer
    /\ bm = NoManager
    /\ app_user = [user |-> 0, had_session |-> FALSE]
    /\ bakRes = NoBakRes

InitManagerD == initialize_backup_manager /\ UNCHANGED nonBakVars

TickD ==
    /\ Cardinality(files) < MaxArtifacts
    /\ \E io \in IoOutcomes : timer_tick(io)
    /\ UNCHANGED nonBakVars

AdvanceD ==
    /\ now < MaxNow
    /\ advance
    /\ UNCHANGED nonBakVars

LoginD ==
    /\ Cardinality(files) < MaxArtifacts
    /\ \E io \in IoOutcomes : set_current_user(1, io)
    /\ UNCHANGED nonBakVars

LogoutD == clear_current_user /\ UNCHANGED nonBakVars

WriteDbD ==
    /\ dbWrites < MaxWrites
    /\ write_db
    /\ UNCHANGED nonBakVars

NextLaunch ==
    InitManagerD \/ TickD \/ AdvanceD \/ LoginD \/ LogoutD \/ WriteDbD

SpecLaunch == InitLaunch /\ [][NextLaunch]_vars

(***************************************************************************)
(* SpecPaid: a key system on a recurring plan is marked paid and unpaid    *)
(* and the systems list is reloaded while the days pass.                   *)
(***************************************************************************)
\* the days the run spans
MaxPaidDay == 45

InitPaid ==
    /\ users = FreshUsers /\ nextId = 2 /\ current_user = NoUser
    /\ authRes = NoRes /\ edits = 0
    /\ PermIdle
    /\ UpdIdle
    /\ BakIdle
    /\ TokIdle
    /\ SysIdle
    /\ key_system \in {[NewSystem EXCEPT !.billing_plan = bp] : bp \in RecurringPlans}
    /\ orders = <<>>
    /\ saver = [p \in Instances |-> IdleSaver(0)]
    /\ systems_table = NoRow

LoadSystemsI == populate_table /\ UNCHANGED nonKeyVars

SetInvoiceStatusI ==
    /\ \E paid \in BOOLEAN : set_invoice_status(paid)
    /\ UNCHANGED nonKeyVars

\* a day passes
NextDayI ==
    /\ now < Days(MaxPaidDay)
    /\ now' = now + Days(1)
    /\ UNCHANGED <<cwd, live, dbWrites, files, temp_restore, backup_config,
                   backup_timer, bm, app_user, bakRes>>
    /\ UNCHANGED <<authVars, permVars, updVars, extVars>>

NextPaid == LoadSystemsI \/ SetInvoiceStatusI \/ NextDayI

SpecPaid == InitPaid /\ [][NextPaid]_vars

(***************************************************************************)
(* SpecVersion: versions are published one after another, starting from    *)
(* any version with two decimals.                                          *)
(***************************************************************************)
\* publications per run
MaxPublish == 3

\* the versions x.yz with two decimals, x below 3
TwoDecimalVersions ==
    {<<<<x>>, <<y, z>>>> : x \in 0..2, y \in 0..9, z \in 0..9}

InitVersion ==
    /\ users = FreshUsers /\ nextId = 2 /\ current_user = NoUser
    /\ authRes = NoRes /\ edits = 0
    /\ PermIdle
    /\ UpdIdle
    /\ BakIdle
    /\ TokIdle
    /\ KeyIdle
    /\ version \in {[NoVersion EXCEPT !.current_version = v, !.previous = v] :
                      v \in TwoDecimalVersions}
    /\ codec = NoCodec
    /\ schema = CurrentSchema
    /\ store = NoStore /\ license = NoLicense

PublishV ==
    /\ version.published < MaxPublish
    /\ increment_version("minor")
    /\ UNCHANGED <<codec, schema, store, license>>
    /\ UNCHANGED nonSysVars

PublishMajorV ==
    /\ version.published < MaxPublish
    /\ increment_version("major")
    /\ UNCHANGED <<codec, schema, store, license>>
    /\ UNCHANGED nonSysVars

NextVersion == PublishV \/ PublishMajorV

SpecVersion == InitVersion /\ [][NextVersion]_vars

(***************************************************************************)
(* SpecCodec: the database manager is initialized, strings are encrypted   *)
(* and decrypted, the application is restarted.                            *)
(***************************************************************************)
\* runs of the application, ciphertexts kept, and the length of the strings
\* encrypted
MaxSessions == 2
MaxStored == 1
MaxTextLen == 2

\* the code points of "a", "å" and "ö"
CodePoints == {97, 229, 246}

\* the strings encrypted: the empty string among them
Texts == UNION {[1..n -> CodePoints] : n \in 0..MaxTextLen}

\* the initialization vectors drawn
Ivs == {0, 255}

InitCodec ==
    /\ users = FreshUsers /\ nextId = 2 /\ current_user = NoUser
    /\ authRes = NoRes /\ edits = 0
    /\ PermIdle
    /\ UpdIdle
    /\ BakIdle
    /\ TokIdle
    /\ KeyIdle
    /\ version = NoVersion
    /\ codec = NoCodec
    /\ schema = CurrentSchema
    /\ store = NoStore /\ license = NoLicense

InitializeC ==
    /\ \E master_password \in MasterPasswords, drawn \in Salts, io \in {"ok", "raise"} :
          initialize(master_password, drawn, io)
    /\ UNCHANGED <<version, schema, store, license>>
    /\ UNCHANGED nonSysVars

RestartC ==
    /\ codec.session < MaxSessions
    /\ restart_database
    /\ UNCHANGED <<version, schema, store, license>>
    /\ UNCHANGED nonSysVars

EncryptC ==
    /\ Cardinality(codec.stored) < MaxStored
    /\ \E data \in Texts, iv \in Ivs : encrypt_and_store(data, iv)
    /\ UNCHANGED <<version, schema, store, license>>
    /\ UNCHANGED nonSysVars

DecryptC ==
    /\ \E entry \in codec.stored : decrypt_stored(entry)
    /\ UNCHANGED <<version, schema, store, license>>
    /\ UNCHANGED nonSysVars

NextCodec == InitializeC \/ RestartC \/ EncryptC \/ DecryptC

SpecCodec == InitCodec /\ [][NextCodec]_vars

(***************************************************************************)
(* SpecMigrate: migrate_database runs, start after start, on a database    *)
(* that has any part of the optional columns and tables.                   *)
(***************************************************************************)
\* starts of the application per run
MaxStarts == 2

InitMigrate ==
    /\ users = FreshUsers /\ nextId = 2 /\ current_user = NoUser
    /\ authRes = NoRes /\ edits = 0
    /\ PermIdle
    /\ UpdIdle
    /\ BakIdle
    /\ TokIdle
    /\ KeyIdle
    /\ version = NoVersion
    /\ codec = NoCodec
    /\ \E columns \in SUBSET OptionalColumns, tables \in SUBSET OptionalTables :
          schema = [CurrentSchema EXCEPT
                       !.columns = columns, !.tables = tables,
                       !.data = [c \in columns |-> "stored"],
                       !.rows = [t \in tables |-> "stored"]]
    /\ store = NoStore /\ license = NoLicense

MigrateM ==
    /\ schema.res.runs < MaxStarts
    /\ \E failAt \in 0..Len(Migration) : migrate_database(failAt)
    /\ UNCHANGED <<version, codec, store, license>>
    /\ UNCHANGED nonSysVars

NextMigrate == MigrateM

SpecMigrate == InitMigrate /\ [][NextMigrate]_vars

(***************************************************************************)
(* SpecDelete: orders, receipts, manufacturing orders and invoices are     *)
(* stored for the key systems of two customers, and key systems are        *)
(* deleted with the key fob return dialog.                                 *)
(***************************************************************************)
\* orders, invoices and deletions per run
MaxStoreOrders == 2
MaxInvoices == 1
MaxDeletes == 2

\* customer 1 has the key systems 1 and 2, customer 2 the key system 3
InitDelete ==
    /\ users = FreshUsers /\ nextId = 2 /\ current_user = NoUser
    /\ authRes = NoRes /\ edits = 0
    /\ PermIdle
    /\ UpdIdle
    /\ BakIdle
    /\ TokIdle
    /\ KeyIdle
    /\ version = NoVersion
    /\ codec = NoCodec
    /\ schema = CurrentSchema
    /\ store = [NoStore EXCEPT
                  !.customers = {1, 2},
                  !.key_systems = {[id |-> 1, customer_id |-> 1],
                                   [id |-> 2, customer_id |-> 1],
                                   [id |-> 3, customer_id |-> 2]}]
    /\ license = NoLicense

StoreOrderX ==
    /\ store.nextOrder <= MaxStoreOrders
    /\ \E ks \in store.key_systems : store_order(ks.id)
    /\ UNCHANGED <<version, codec, schema, license>>
    /\ UNCHANGED nonSysVars

StoreReceiptX ==
    /\ \E o \in store.orders : store_key_receipt(o.id)
    /\ UNCHANGED <<version, codec, schema, license>>
    /\ UNCHANGED nonSysVars

StoreManufacturingX ==
    /\ \E o \in store.orders : store_manufacturing_order(o.id)
    /\ UNCHANGED <<version, codec, schema, license>>
    /\ UNCHANGED nonSysVars

StoreInvoiceX ==
    /\ store.nextInvoice <= MaxInvoices
    /\ \E ks \in store.key_systems : store_invoice(ks.id)
    /\ UNCHANGED <<version, codec, schema, license>>
    /\ UNCHANGED nonSysVars

DeleteSystemX ==
    /\ store.res.calls < MaxDeletes
    /\ \E ks \in store.key_systems, failAt \in 0..3 : delete_system_data(ks, failAt)
    /\ UNCHANGED <<version, codec, schema, license>>
    /\ UNCHANGED nonSysVars

NextDelete ==
    StoreOrderX \/ StoreReceiptX \/ StoreManufacturingX \/ StoreInvoiceX
        \/ DeleteSystemX

SpecDelete == InitDelete /\ [][NextDelete]_vars

(***************************************************************************)
(* SpecLicense: licences are activated, trials are started, days pass, the *)
(* hardware is replaced, and the licence is validated.                     *)
(***************************************************************************)
\* the last day, the creations per run, the days arguments and the steps of
\* the clock
MaxLicenseDay == 430
MaxLicenses == 2
TrialDays == {DefaultTrialDays, 60}
ClockSteps == {30, 335}
Machines == {1, 2}

InitLicense ==
    /\ users = FreshUsers /\ nextId = 2 /\ current_user = NoUser
    /\ authRes = NoRes /\ edits = 0
    /\ PermIdle
    /\ UpdIdle
    /\ BakIdle
    /\ TokIdle
    /\ KeyIdle
    /\ version = NoVersion
    /\ codec = NoCodec
    /\ schema = CurrentSchema
    /\ store = NoStore
    /\ license = NoLicense

\* activate_license of the dialog with an accepted key
ActivateL ==
    /\ license.call.calls < MaxLicenses
    /\ \E io \in {"ok", "error"} :
          create_license([license_key |-> "KEYBUDDY-MEDZETA-DESIGN-2024",
                          company |-> "Medzeta Design", license_type |-> "Full",
                          max_users |-> FullMaxUsers, active |-> TRUE], io)
    /\ UNCHANGED <<version, codec, schema, store>>
    /\ UNCHANGED nonSysVars

StartTrialL ==
    /\ license.call.calls < MaxLicenses
    /\ \E days \in TrialDays, io \in {"ok", "error"} : create_trial_license(days, io)
    /\ UNCHANGED <<version, codec, schema, store>>
    /\ UNCHANGED nonSysVars

ValidateL ==
    /\ validate_license
    /\ UNCHANGED <<version, codec, schema, store>>
    /\ UNCHANGED nonSysVars

AdvanceL ==
    /\ \E d \in ClockSteps :
          /\ license.now + d <= MaxLicenseDay
          /\ license' = [license EXCEPT !.now = @ + d]
    /\ UNCHANGED <<version, codec, schema, store>>
    /\ UNCHANGED nonSysVars

\* the machine identifier changes (other hardware, or the file is copied)
NewMachineL ==
    /\ \E id \in Machines \ {license.machine_id} :
          license' = [license EXCEPT !.machine_id = id]
    /\ UNCHANGED <<version, codec, schema, store>>
    /\ UNCHANGED nonSysVars

NextLicense == ActivateL \/ StartTrialL \/ ValidateL \/ AdvanceL \/ NewMachineL

SpecLicense == InitLicense /\ [][NextLicense]_vars

(***************************************************************************)
(* The claims about login and registration.                                *)
(***************************************************************************)
\* p verifies against the stored hash, as a bcrypt hash or as a legacy digest
Verifies(p, h) == h.pw = p /\ h.alg \in {"bcrypt", "sha256"}

\* t is a valid TOTP code for the secret: of that secret, at most one step off
ValidCode(t, secret) ==
    t # NoCode /\ secret # NULL /\ t.secret = secret /\ t.skew \in {-1, 0, 1}

\* C1: a call login(u, p, t) establishes a session (sets current_user and
\* returns the profile) only if, on the table as it is at the call, the row
\* matched by u has a hash that p verifies against, is verified or is named
\* admin, is active, and has two-factor off or is named admin or t is a valid
\* code for its secret; no other outcome of login changes current_user.
C1_SessionOnlyIfChecksPass ==
    [][authRes'.op = "login" =>
        IF authRes'.kind = "profile"
        THEN \E j \in Matches(users, authRes'.u) :
               /\ current_user'.id = j
               /\ authRes'.uid = j
               /\ Verifies(authRes'.p, users[j].password_hash)
               /\ (users[j].is_verified \/ users[j].username = "admin")
               /\ users[j].is_active
               /\ \/ ~users[j].two_factor_enabled
                  \/ users[j].username = "admin"
                  \/ ValidCode(authRes'.t, users[j].totp_secret)
        ELSE current_user' = current_user]_authVars

\* C1 witness: a session established through the TOTP step
C1_Witness ==
    /\ authRes.op = "login" /\ authRes.kind = "profile"
    /\ current_user.id = authRes.uid
    /\ users[authRes.uid].two_factor_enabled
    /\ users[authRes.uid].username # "admin"
    /\ ValidCode(authRes.t, users[authRes.uid].totp_secret)

\* the rows that register_user created (on a fresh database: all but row 1)
Registered == DOMAIN users \ {1}

\* the last call was login with the username of verified row j and its password
LoggedInAs(res, tbl, j) ==
    /\ res.op = "login"
    /\ res.u = tbl[j].username
    /\ Verifies(res.p, tbl[j].password_hash)
    /\ tbl[j].is_verified

\* C2 as stated: for a user created by register_user and verified, login with
\* the correct password and no TOTP code answers requires_2fa with the user's
\* TOTP secret.
C2_Original ==
    \A j \in Registered :
        (LoggedInAs(authRes, users, j) /\ authRes.t = NoCode /\ edits = 0)
            => (authRes.kind = "2fa" /\ authRes.totp_secret = users[j].totp_secret)

\* C2 as amended: two-factor is off for every registered user until the
\* administrator turns it on, and for a verified, active registered user
\* login with the username and the correct password
\*   - establishes the session and returns the profile with is_admin false
\*     when two-factor is off for the user;
\*   - with no TOTP code and two-factor on, answers requires_2fa with the
\*     user's TOTP secret and leaves current_user as it was;
\*   - with a valid TOTP code and two-factor on, establishes the session and
\*     returns the profile with is_admin false.
C2_Amended ==
    [][/\ edits' = 0 => \A j \in DOMAIN users' \ {1} : ~users'[j].two_factor_enabled
       /\ \A j \in Registered :
            (LoggedInAs(authRes', users, j) /\ users[j].is_active) =>
                /\ ~users[j].two_factor_enabled =>
                      /\ authRes'.kind = "profile" /\ authRes'.uid = j
                      /\ authRes'.is_admin = FALSE /\ current_user'.id = j
                /\ (users[j].two_factor_enabled /\ authRes'.t = NoCode) =>
                      /\ authRes'.ok /\ authRes'.kind = "2fa"
                      /\ authRes'.totp_secret = users[j].totp_secret
                      /\ current_user' = current_user
                /\ (users[j].two_factor_enabled
                        /\ ValidCode(authRes'.t, users[j].totp_secret)) =>
                      /\ authRes'.kind = "profile" /\ authRes'.uid = j
                      /\ authRes'.is_admin = FALSE /\ current_user'.id = j
      ]_authVars

\* C2 witness: a registered user, verified, for whom two-factor was turned on,
\* has logged in with a valid TOTP code
C2_Witness ==
    /\ authRes.op = "login" /\ authRes.kind = "profile"
    /\ authRes.uid \in Registered
    /\ users[authRes.uid].two_factor_enabled
    /\ authRes.t # NoCode
    /\ current_user.id = authRes.uid

\* C3 as stated: register_user succeeds whenever neither the username nor the
\* email is stored, and every login with the credentials of a registered,
\* not yet verified user (by username or by email, with the password) fails
\* with the 'not verified' message and establishes no session.
C3_Original ==
    /\ (authRes.op = "register" /\ ~authRes.ok) =>
          \E j \in DOMAIN users :
              users[j].username = authRes.u \/ users[j].email = authRes.e
    /\ authRes.op = "login" =>
          \A j \in Registered :
              ( /\ ~users[j].is_verified
                /\ users[j].username # "admin"
                /\ authRes.u \in {users[j].username, users[j].email}
                /\ Verifies(authRes.p, users[j].password_hash) )
              => (authRes.msg = MsgNotVerified /\ authRes.kind = "none")

(***************************************************************************)
(* The claims about permissions.                                           *)
(***************************************************************************)
\* the default permission set of a stored role: the set of the enum member with
\* that value, and no permission for a role string that names no member
RoleDefaults(role) == IF role \in UserRole THEN role_permissions[role] ELSE {}

\* an individual grant row (u, p) exists
Granted(u, p) ==
    \E i \in DOMAIN permissions :
        permissions[i].user_id = u /\ permissions[i].permission_type = p

\* C4 as stated: for every user u and permission p, has_permission(u, p) is
\* true exactly when p is in the default set of u's stored role or a grant row
\* (u, p) exists, after any grant_permission, revoke_permission and
\* set_user_role calls and for every role a row can hold, the schema default
\* of registration included.
C4_Original ==
    \A u \in DOMAIN users : \A p \in Permission :
        has_permission(users, permissions, u, p)
            <=> (p \in RoleDefaults(users[u].role) \/ Granted(u, p))

(***************************************************************************)
(* The claim about the default administrator.                              *)
(***************************************************************************)
\* C5 as stated: after every startup, whatever edits earlier sessions made to
\* the users table, a row with username 'admin' exists and has role 'admin',
\* is_admin, is_active, is_verified, two-factor off, the fixed email and a
\* password hash that verifies the password 'admin'.
C5_Original ==
    authRes.op = "startup" =>
        \E j \in DOMAIN users :
            /\ users[j].username = "admin"
            /\ users[j].role = "admin"
            /\ users[j].is_admin /\ users[j].is_active /\ users[j].is_verified
            /\ ~users[j].two_factor_enabled
            /\ users[j].email = "keybuddyreg@gmail.com"
            /\ verify_password("admin", users[j].password_hash)

(***************************************************************************)
(* The claim about execute_update.                                         *)
(***************************************************************************)
\* the retries performed so far in the call: re-executions after a failed attempt
Retries == euAttempt

\* every error that was followed by a retry is a lock error
RetriedOnlyLocks ==
    \A i \in DOMAIN euErrors :
        (i < Len(euErrors) \/ euPc = "running") => euErrors[i] \in LockMessages

\* a call that has returned returned lastrowid for INSERT and rowcount otherwise
ReturnsResult ==
    euPc = "returned" =>
        euResult.kind = IF IsInsert(euQuery) THEN "lastrowid" ELSE "rowcount"

\* C6 as stated: execute_update retries only on a 'database is locked' or
\* 'database is busy' error, and the lock error propagates to the caller only
\* once 5 retries (re-executions after a failed attempt) have been performed;
\* any other error propagates after the attempt that raised it, with no retry;
\* a successful attempt returns lastrowid for INSERT and rowcount otherwise;
\* the call never returns without a result.
C6_Original ==
    /\ RetriedOnlyLocks
    /\ ReturnsResult
    /\ (euPc = "raised" /\ euResult.error \in LockMessages) => Retries = 5

(***************************************************************************)
(* The claims about backups.                                               *)
(***************************************************************************)
\* C7 as stated: in every restore_backup in which a live file is overwritten, a
\* restore-point backup that holds the live database as it was before the
\* restore has been written successfully; if the restore point cannot be
\* created, no live file is overwritten.
C7_Original ==
    (bakRes.op = "restore_backup" /\ bakRes.overwritten # {}) =>
        \E f \in files :
            /\ f.id = bakRes.restore_point
            /\ f.complete
            /\ f.content.db = bakRes.pre.db

\* the artifacts in the configured backup directory
InConfiguredDir ==
    {f \in files : f.dir = AppRootPath(backup_config.backup_path)}

\* C8 as stated: once more than max_backups backups have been created
\* successfully in the configured backup directory, exactly max_backups
\* artifacts remain there, the most recently created ones; so after a
\* successful creation in that directory it holds at most max_backups
\* artifacts, the new one among them.
C8_Original ==
    (bakRes.file # 0 /\ \E f \in InConfiguredDir : f.id = bakRes.file) =>
        Cardinality(InConfiguredDir) <= backup_config.max_backups

\* C10 as stated: constructed with delay_startup_backup = True, the
\* BackupManager creates no automatic backup before the first
\* set_current_user call, in any sequence of construction, timer ticks,
\* configuration updates and logins.
C10_Original ==
    (bm.delay /\ \E f \in files : f.auto) => app_user.had_session

\* the months of a time, counted from year 0
MonthsOf(t) == DateOf(t).year * 12 + DateOf(t).month

\* the first half day of 2024-01-31, of 2024-02-01 and of 2024-01-02, counted
\* in days from 2023-12-30
Jan31 == Days(32)
Feb01 == Days(33)
Jan02 == Days(3)

\* C9: should_perform_backup answers, with L the time of the newest backup in
\* the configured directory and N the time of the call: false whenever enabled
\* is false; for daily and for any unknown cadence, true unless L is on the
\* calendar date of N; for weekly, true iff there is no backup or N - L >= 7
\* days; for monthly, true iff there is no backup or the month of N, counted as
\* year * 12 + month, is at least one after that of L: a backup of Jan 31
\* makes Feb 1 due, a backup earlier in the month of N does not.
C9_CadenceDecision ==
    bakRes.op = "should_perform_backup" =>
        LET L == Latest(InConfiguredDir)
            N == now
            none == InConfiguredDir = {}
            frequency == backup_config.frequency
        IN /\ ~backup_config.enabled => ~bakRes.ok
           /\ (backup_config.enabled /\ frequency \notin {"weekly", "monthly"}) =>
                 (bakRes.ok <=> ~(~none /\ DateOf(L) = DateOf(N)))
           /\ (backup_config.enabled /\ frequency = "weekly") =>
                 (bakRes.ok <=> (none \/ N - L >= Days(7)))
           /\ (backup_config.enabled /\ frequency = "monthly") =>
                 /\ bakRes.ok <=> (none \/ MonthsOf(N) - MonthsOf(L) >= 1)
                 /\ (L \in Jan31..(Feb01 - 1) /\ N \in Feb01..(Feb01 + Days(1) - 1))
                        => bakRes.ok
                 /\ (~none /\ L \in Jan02..N /\ N < Feb01) => ~bakRes.ok

\* C9 witness: monthly cadence, the newest backup written on Jan 31 2024, the
\* check made on Feb 1 2024 and answered with true
C9_Witness ==
    /\ bakRes.op = "should_perform_backup" /\ bakRes.ok
    /\ backup_config.enabled /\ backup_config.frequency = "monthly"
    /\ InConfiguredDir # {}
    /\ DateOf(Latest(InConfiguredDir)) = [year |-> 2024, month |-> 1, day |-> 31]
    /\ DateOf(now) = [year |-> 2024, month |-> 2, day |-> 1]

\* a step of update_config: the only steps that leave the clock, the session
\* and the manager alone and end with the result record of update_config
UpdateConfigStep ==
    /\ bakRes'.op = "update_config"
    /\ now' = now /\ app_user' = app_user /\ bm' = bm
    /\ <<backup_config, backup_timer, files, bakRes>>'
          # <<backup_config, backup_timer, files, bakRes>>

\* a timeout of the backup timer
TickStep == bakRes'.op = "tick" /\ bm' = bm /\ backup_timer' # backup_timer

\* C11: between construction and cleanup() the 24-hour timer is running iff the
\* configuration has enabled = true: a tick, whether its backup failed,
\* succeeded or was not due, leaves it running with the next timeout 24 hours
\* after the last, whatever the cadence; update_config with enabled = false
\* stops it and update_config with enabled = true starts it again with 24 hours
\* to run.
C11_TimerRunsIffEnabled ==
    /\ [](bm.state = "ready" => (backup_timer.active <=> backup_config.enabled))
    /\ [][(bm.state = "ready" /\ TickStep) =>
             backup_timer' = [active |-> TRUE, due |-> backup_timer.due + Days(1)]]_vars
    /\ [][(bm.state = "ready" /\ UpdateConfigStep) =>
             backup_timer' = IF backup_config'.enabled
                             THEN [active |-> TRUE, due |-> now + Days(1)]
                             ELSE StoppedTimer]_vars

\* C11 witness: with the weekly cadence a tick's backup attempt has failed, the
\* timer is still running and its next timeout is a day away
C11_Witness ==
    /\ bm.state = "ready"
    /\ bakRes.op = "tick" /\ bakRes.errors > 0
    /\ backup_config.enabled /\ backup_config.frequency = "weekly"
    /\ backup_timer.active /\ backup_timer.due = now + Days(1)

\* the backup_error signals of the last call that report the restore itself:
\* all of them but the one create_backup emits when the restore point fails
RestoreErrors ==
    bakRes.errors - (IF bakRes.started > 0 /\ bakRes.restore_point = 0 THEN 1 ELSE 0)

\* C12: every I/O failure inside create_backup or restore_backup is caught,
\* the call answers with its failure value ("" or False) and backup_error is
\* emitted with the error text: a create_backup that returned "" has emitted
\* backup_error, and a restore_backup that returned False, a missing backup
\* file and a failed copy in restore_files included, has emitted backup_error.
C12_Original ==
    /\ (bakRes.op = "create_backup" /\ bakRes.file = 0) => bakRes.errors > 0
    /\ (bakRes.op = "restore_backup" /\ ~bakRes.ok) => RestoreErrors > 0

\* the rows that hold reset token t, and those that hold verification token t
HoldReset(tbl, t) == {j \in DOMAIN tbl : t # NULL /\ tbl[j].reset_token = t}
HoldVerification(tbl, t) == {j \in DOMAIN tbl : t # NULL /\ tbl[j].verification_token = t}

\* a step of the AuthManager call op
AuthStep(op) ==
    authRes'.op = op /\ <<users, authRes, nextToken>>' # <<users, authRes, nextToken>>

\* C13: at most one password-reset token is valid per user at any time.  A
\* reset token names at most one row.  A request_password_reset that succeeds
\* stores a token never issued before in the row of the email, and the token
\* the row held before is then held by no row, so that reset_password with it
\* fails.  reset_password(t, p) succeeds exactly when a row holds t; it then
\* sets that row's password to p and clears the token, so that no row holds t
\* afterwards and a second use fails; when it fails it changes nothing.
\* verify_email(t) likewise succeeds exactly when a row holds t as verification
\* token, clears it, and changes nothing when it fails.
C13_OneResetToken ==
    /\ [](\A j, k \in DOMAIN users :
             (j # k /\ users[j].reset_token # NULL)
                => users[j].reset_token # users[k].reset_token)
    /\ [][(AuthStep("request_password_reset") /\ authRes'.ok) =>
             /\ authRes'.tok # NULL
             /\ HoldReset(users, authRes'.tok) = {}
             /\ \A j \in DOMAIN users :
                   users[j].email = authRes'.e =>
                      /\ users'[j].reset_token = authRes'.tok
                      /\ HoldReset(users', users[j].reset_token) = {}]_vars
    /\ [][AuthStep("reset_password") =>
             IF HoldReset(users, authRes'.tok) # {}
             THEN /\ authRes'.ok
                  /\ HoldReset(users', authRes'.tok) = {}
                  /\ \A j \in HoldReset(users, authRes'.tok) :
                        /\ users'[j].reset_token = NULL
                        /\ verify_password(authRes'.p, users'[j].password_hash)
             ELSE ~authRes'.ok /\ users' = users]_vars
    /\ [][AuthStep("verify") =>
             IF HoldVerification(users, authRes'.tok) # {}
             THEN /\ authRes'.ok
                  /\ HoldVerification(users', authRes'.tok) = {}
             ELSE ~authRes'.ok /\ users' = users]_vars

\* C13 witness: two tokens were requested for the administrator's email, the
\* row holds the second, and reset_password with the first has just failed
C13_Witness ==
    /\ DOMAIN users = {1}
    /\ nextToken = 3
    /\ users[1].reset_token = 2
    /\ authRes.op = "reset_password" /\ authRes.tok = 1 /\ ~authRes.ok
    /\ verify_password(AdminPassword, users[1].password_hash)

\* C14: register_user with a username or an email that some row already holds
\* returns (False, message) and leaves the users table unchanged; so after any
\* sequence of register_user calls no two rows share a username and no two
\* share an email.
C14_RegisterKeepsUnique ==
    /\ [][(AuthStep("register")
             /\ \E j \in DOMAIN users :
                   users[j].username = authRes'.u \/ users[j].email = authRes'.e)
          => (~authRes'.ok /\ authRes'.msg = MsgExists
                /\ users' = users /\ nextId' = nextId)]_vars
    /\ [](\A j, k \in DOMAIN users :
             j # k => (users[j].username # users[k].username
                         /\ users[j].email # users[k].email))

\* C14 witness: a registration under a new username and the email of a
\* registered user was refused
C14_Witness ==
    /\ Cardinality(DOMAIN users) = 2
    /\ authRes.op = "register" /\ ~authRes.ok /\ authRes.msg = MsgExists
    /\ \A j \in DOMAIN users : users[j].username # authRes.u
    /\ \E j \in DOMAIN users : users[j].email = authRes.e

C16_Original ==
    (authRes.op = "login" /\ authRes.kind = "2fa") =>
        /\ authRes.totp_secret = users[authRes.uid].totp_secret
        /\ {"totp_secret", "qr_code"} \subseteq PayloadKeys(authRes.kind)

\* a step of revoke_permission
RevokeStep ==
    permRes'.op = "revoke" /\ <<permissions, permRes>>' # <<permissions, permRes>>

\* C17: revoke_permission(u, p) reports success, deletes the grant rows (u, p)
\* and no other row, and changes no role; after it has_permission(u, p) is
\* true for every p in the default set of u's role and false for every p
\* outside it, however many times p had been granted.
C17_RevokeKeepsRole ==
    [][RevokeStep =>
          LET u == permRes'.uid
              p == permRes'.perm
          IN /\ permRes'.ok
             /\ users' = users
             /\ permissions' = SelectSeq(permissions,
                   LAMBDA r : ~(r.user_id = u /\ r.permission_type = p))
             /\ has_permission(users', permissions', u, p)
                   <=> p \in RoleDefaults(users[u].role)]_vars

\* C17 witness: user 2 was made manager and manage_settings, outside the
\* manager defaults, was revoked: the role is kept, view_customer is still
\* permitted and manage_settings is not
C17_Witness ==
    /\ permRes.op = "revoke" /\ permRes.uid = 2 /\ permRes.perm = "manage_settings"
    /\ 2 \in DOMAIN users /\ users[2].role = "manager"
    /\ Len(permissions) = 1
    /\ has_permission(users, permissions, 2, "view_customer")
    /\ ~has_permission(users, permissions, 2, "manage_settings")

\* the steps of save_key_order in application p
InsertStep(p) == saver[p].pc # "inserted" /\ saver'[p].pc = "inserted"
UpdateStep(p) == saver[p].pc = "inserted" /\ saver'[p].pc = "done"
InterruptStep(p) == saver[p].pc = "inserted" /\ saver'[p].pc = "interrupted"

\* the ranges of two orders have a number in common
Overlap(a, b) == a.sequence_start <= b.sequence_end /\ b.sequence_start <= a.sequence_end

\* C18: order creation is two independent commits with nothing against
\* overlap.  The insert of a save stores its order after the orders present,
\* whatever their ranges and whatever other save is under way, and leaves the
\* key system alone; the update of a save sets last_sequence_number to the
\* sequence_end of that save, so the number ends as that of the update that
\* commits last; a save interrupted between the two leaves its order stored
\* and last_sequence_number as it was.
C18_TwoCommitsNoEnforcement ==
    /\ [][\A p \in Instances : InsertStep(p) =>
             /\ Len(orders') = Len(orders) + 1
             /\ SubSeq(orders', 1, Len(orders)) = orders
             /\ orders'[Len(orders')].sequence_start = saver'[p].sequence_start
             /\ orders'[Len(orders')].sequence_end = saver'[p].sequence_end
             /\ key_system' = key_system]_vars
    /\ [][\A p \in Instances : UpdateStep(p) =>
             /\ key_system'.last_sequence_number = saver[p].sequence_end
             /\ orders' = orders]_vars
    /\ [][\A p \in Instances : InterruptStep(p) =>
             /\ saver[p].order_id \in DOMAIN orders'
             /\ orders' = orders
             /\ key_system' = key_system]_vars

\* C18 witness: application 1 inserted its order first and updated last,
\* application 2 saved an overlapping order with another end in between: both
\* orders are stored and last_sequence_number is the end of the older order
C18_Witness ==
    /\ Len(orders) = 2
    /\ saver[1].pc = "done" /\ saver[1].order_id = 1
    /\ saver[2].pc = "done" /\ saver[2].order_id = 2
    /\ Overlap(orders[1], orders[2])
    /\ orders[1].sequence_end < orders[2].sequence_end
    /\ key_system.last_sequence_number = orders[1].sequence_end

\* C19: every order saved with quantity q >= 1 and sequence_start s is stored
\* with sequence_end = s + q - 1 (q = 5, s = 10 gives 14); when the save
\* completes, last_sequence_number of the key system is that sequence_end; the
\* sequence_end of a stored order is never changed afterwards.
C19_SequenceEnd ==
    /\ [](\A i \in DOMAIN orders :
             /\ orders[i].quantity >= 1
             /\ orders[i].sequence_end
                   = orders[i].sequence_start + orders[i].quantity - 1
             /\ (orders[i].quantity = 5 /\ orders[i].sequence_start = 10)
                   => orders[i].sequence_end = 14)
    /\ [][\A p \in Instances : UpdateStep(p) =>
             key_system'.last_sequence_number = orders[saver[p].order_id].sequence_end]_vars
    /\ [][\A i \in DOMAIN orders :
             i \in DOMAIN orders' /\ orders'[i].sequence_end = orders[i].sequence_end]_vars

\* C19 witness: an order of 5 keys from number 10 is stored with end 14, its
\* save is complete and last_sequence_number is 14
C19_Witness ==
    \E p \in Instances :
        /\ saver[p].pc = "done"
        /\ saver[p].order_id \in DOMAIN orders
        /\ orders[saver[p].order_id].quantity = 5
        /\ orders[saver[p].order_id].sequence_start = 10
        /\ orders[saver[p].order_id].sequence_end = 14
        /\ key_system.last_sequence_number = 14

\* the whole days from the payment to the load of the systems list
WholeDaysSincePaid == (now - key_system.paid_at) \div SlotsPerDay

\* the period of a recurring plan, in days
PlanPeriod(plan) ==
    CASE plan = "Manadskostnad" -> 30
      [] plan = "Halvarskostnad" -> 182
      [] plan = "Helarskostnad" -> 365

C27_Original ==
    /\ \A j, k \in DOMAIN users :
          j # k => users[j].username # users[k].email
    /\ \A u \in Identifiers : Cardinality(Matches(users, u)) <= 1

\* C28 as stated: after any sequence of grant_permission, revoke_permission
\* and set_user_role calls, for every user row and every permission p, p is in
\* get_user_permissions(u) if and only if has_permission(u, p) is true.
C28_Original ==
    \A u \in DOMAIN users : \A p \in Permission :
        (p \in get_user_permissions(users, permissions, u))
            <=> has_permission(users, permissions, u, p)

\* the automatic backups created successfully on the day of time t
AutoBackupsOn(t) ==
    {f \in files : f.auto /\ f.complete /\ DateOf(f.created) = DateOf(t)}

\* C26 as stated: with automatic backup enabled, daily cadence and the default
\* relative backup_path, once an automatic backup has been created
\* successfully should_perform_backup() answers false for the rest of that
\* calendar day, so timer ticks and logins create at most one automatic
\* backup a day.
C26_Original ==
    (backup_config.enabled /\ backup_config.frequency = "daily"
        /\ backup_config.backup_path = DefaultConfig.backup_path) =>
        /\ AutoBackupsOn(now) # {} => ~should_perform_backup(World("check"))
        /\ \A t \in 0..MaxNow : Cardinality(AutoBackupsOn(t)) <= 1

\* a call of restore_backup
RestoreStep ==
    /\ bakRes'.op = "restore_backup"
    /\ dbWrites' = dbWrites /\ bm' = bm
    /\ <<live, files, temp_restore, bakRes>>' # <<live, files, temp_restore, bakRes>>

\* C29 as stated: whenever restore_backup(B) returns True for a backup B that
\* contains database.db, the live database file afterwards is B's database.db,
\* and the salt file B's database.db.salt when B contains one, whatever
\* restores came before, those that failed part-way included.
C29_Original ==
    [][(RestoreStep /\ bakRes'.ok) =>
          \A B \in files :
              (B.id = bakRes'.backup_file /\ B.content.db # Missing) =>
                  /\ live'.db = B.content.db
                  /\ B.content.salt # Missing => live'.salt = B.content.salt]_vars

\* the whole days since the key system was last marked paid
WholeDaysSinceMarked == (now - key_system.last_invoice_date) \div SlotsPerDay

\* C25 as stated: a key system on a recurring plan that was marked paid stays
\* stored and shown as paid on every reload of the systems list until a full
\* plan period (30/182/365 days) has elapsed since that marking, also when it
\* had been paid before and was auto-reverted in an earlier period: a reload
\* reverts it only when the period has elapsed since the last marking.
C25_Original ==
    (systems_table.loaded /\ systems_table.reverted
        /\ key_system.last_invoice_date # Never) =>
        WholeDaysSinceMarked >= PlanPeriod(key_system.billing_plan)

\* C30 as stated: for every current version v with two decimals,
\* increment_version('minor') stores a version string that denotes v + 0.01
\* and that is_newer_version ranks as strictly newer than v.
C30_Original ==
    (version.op = "minor" /\ version.previous \in TwoDecimalVersions) =>
        /\ FloatOf(version.current_version) = FloatOf(version.previous) + 1
        /\ is_newer_version(version.current_version, version.previous)

\* C22: on a DatabaseManager for which initialize() has returned True,
\* decrypt_data(encrypt_data(x)) = x for every string x, the empty string and
\* strings with non-ASCII Swedish characters included; initialize never
\* rewrites an existing salt file, so a ciphertext of one session decrypts to
\* its plaintext after a restart with the same master password.
C22_RoundTrip ==
    /\ [](codec.encryption_key # NoKey =>
            /\ \A x \in Texts, iv \in Ivs :
                  decrypt_data(codec.encryption_key,
                               encrypt_data(codec.encryption_key, iv, x).value)
                      = Returned(x)
            /\ \A entry \in codec.stored :
                  entry.password = codec.encryption_key.password =>
                      decrypt_data(codec.encryption_key, entry.text)
                          = Returned(entry.data))
    /\ [][codec.salt_file # NoSalt => codec'.salt_file = codec.salt_file]_vars

\* C22 witness: a string with a non-ASCII character, encrypted in an earlier
\* session, has been decrypted after a restart
C22_Witness ==
    /\ codec.res.op = "decrypt_data" /\ codec.res.ok
    /\ \E c \in CodePoints : c >= 128 /\ codec.res.value = <<c, 97>>
    /\ \E entry \in codec.stored :
          entry.data = codec.res.value /\ entry.session < codec.session

\* the tables whose rows the migration must leave alone
UserTables == {"key_receipts", "manufacturing_orders", "invoices"}

\* every optional column and table is there
SchemaComplete(S) == S.columns = OptionalColumns /\ S.tables = OptionalTables

\* C21: migrate_database never raises to the caller; it removes no column and
\* no table and leaves what is stored in them as it is; when the database
\* refuses none of its statements it adds every optional column and table
\* that is missing; and run on a database that has them all it changes
\* neither the schema nor any row of the tables of user data.
C21_MigrationIdempotent ==
    /\ [](~schema.res.raised)
    /\ [][schema' # schema =>
            /\ schema.columns \subseteq schema'.columns
            /\ schema.tables \subseteq schema'.tables
            /\ \A c \in schema.columns : schema'.data[c] = schema.data[c]
            /\ \A t \in schema.tables \cap UserTables : schema'.rows[t] = schema.rows[t]
            /\ schema'.res.failAt = 0 =>
                  SchemaComplete(schema') /\ schema'.res.caught = 0
            /\ SchemaComplete(schema) =>
                  /\ schema'.columns = schema.columns
                  /\ schema'.tables = schema.tables
                  /\ schema'.data = schema.data]_vars

\* C21 witness: a second migration has run on a database that the first one
\* completed, starting from a schema that had the orders column but neither
\* the billing columns nor the invoices table
C21_Witness ==
    /\ schema.res.runs = 2 /\ schema.res.failAt = 0
    /\ SchemaComplete(schema)
    /\ schema.data["orders.key_responsible"] = "stored"
    /\ schema.data["key_systems.is_paid"] = "default"
    /\ schema.rows["invoices"] = "empty"
    /\ schema.seeded = 2

\* the ids of the orders of a key system
OrdersOf(S, system) == {o.id : o \in {x \in S.orders : x.key_system_id = system}}

\* C23 as stated: after delete_system_data has completed for a key system the
\* database holds no row that belongs to it: no orders for it, no key_receipts
\* or manufacturing_orders rows for its orders, no invoices for it, no
\* key_systems row, and no customers row if it was the customer's last system.
C23_Original ==
    [][(store'.res.op = "delete_system_data" /\ store'.res.calls # store.res.calls
          /\ store'.res.completed) =>
          LET system == store'.res.system
              customer == store'.res.customer
          IN /\ OrdersOf(store', system) = {}
             /\ store'.key_receipts \cap OrdersOf(store, system) = {}
             /\ store'.manufacturing_orders \cap OrdersOf(store, system) = {}
             /\ \A inv \in store'.invoices : inv.system_id # system
             /\ \A ks \in store'.key_systems : ks.id # system
             /\ (\A ks \in store'.key_systems : ks.customer_id # customer)
                   => customer \notin store'.customers]_vars

\* the licence file is the one written by the last call, a successful
\* create_trial_license, on this machine
TrialStored ==
    /\ license.call.op = "create_trial_license" /\ license.call.returned
    /\ license.exists /\ license.key = license.machine_id

\* C24 as stated: a licence created by create_trial_license(days) is stored
\* with expires_at = creation time + days, features = ['limited_access'] and
\* max_users = 1, and validate_license accepts it until that time and rejects
\* it as expired afterwards.
C24_Original ==
    TrialStored =>
       /\ license.data.expires_at = license.call.at + license.call.days
       /\ license.data.features = <<"limited_access">>
       /\ license.data.max_users = 1
       /\ validate(license).valid <=> license.now <= license.call.at + license.call.days
       /\ license.now > license.call.at + license.call.days
             => validate(license).message = "Licensen har gått ut"

====
